---- MODULE Spec2Model ----
(***************************************************************************)
(* A model of the lua_tools front end: the Lexer, the Code Tokenizer, the  *)
(* Annotation Sub-Tokenizer, the Annotation Parser, the Code Parser, the   *)
(* Type Analyzer and the Annotator.                                        *)
(*                                                                         *)
(* Text is a sequence of one-character strings.  Offsets are the 0-based   *)
(* offsets of the Rust code; input[pos + 1] is the character at offset pos.*)
(***************************************************************************)
EXTENDS Integers, Sequences, FiniteSets, TLC

VARIABLES
    lexer,              \* CodeTokenizer.lexer: [input, pos, line, column]
    tokens,             \* the Vec<Token> tokenize() is building
    last_call,          \* the last call made on a Lexer of its own: [op, value],
                        \* value the Option or String returned, as a sequence
    pc,                 \* position of the pipeline
    ap_pos,             \* AnnotationParser.pos
    annotations,        \* the Vec<AnnotationASTNode> parse() is building
    ast,                \* the node slice handed to Annotator::generate_docs
    node_idx,           \* index of the next node of the for loop of generate_docs
    current_module,     \* Annotator.current_module
    preserve_existing,  \* Annotator.preserve_existing
    output,             \* the String generate_docs is building
    rendered,           \* the String process_node returned for the last node
    cp_pos,             \* CodeParser.pos
    nodes,              \* the Vec<CodeASTNode> CodeParser::parse is building
    frames,             \* the running calls of analyze: [nodes, idx, previous_scope]
    current_scope,      \* TypeAnalyzer.current_scope
    entry_scope,        \* current_scope as it was when analyze was called
    modules,            \* TypeAnalyzer.project_context.modules: the set of
                        \* [module, export], one per module and export name
    inferred_returns    \* the local inferred_returns of the FunctionDef arm of
                        \* analyze, as the last function analyzed left it

tokVars == <<lexer, tokens, last_call>>
apVars  == <<ap_pos, annotations>>
anVars  == <<ast, node_idx, current_module, preserve_existing, output, rendered>>
cpVars  == <<cp_pos, nodes>>
taVars  == <<frames, current_scope, entry_scope, modules, inferred_returns>>
vars    == <<lexer, tokens, last_call, pc, ap_pos, annotations, ast, node_idx,
             current_module, preserve_existing, output, rendered,
             cp_pos, nodes,
             frames, current_scope, entry_scope, modules, inferred_returns>>

(***************************************************************************)
(* Bounds of the model.                                                    *)
(***************************************************************************)
MaxFragments == 4
MaxLines == 3
MaxParams == 2
MaxReturns == 2
MaxDocs == 2
MaxExports == 2
MaxChunks == 2
MaxTextLen == 45
MaxDepth == 2

MaxStatements == 2

MaxChars == 4

(***************************************************************************)
(* Characters.                                                             *)
(***************************************************************************)
None == "<none>"

Letters ==
    {"a","b","c","d","e","f","g","h","i","j","k","l","m",
     "n","o","p","q","r","s","t","u","v","w","x","y","z",
     "A","B","C","D","E","F","G","H","I","J","K","L","M",
     "N","O","P","Q","R","S","T","U","V","W","X","Y","Z"}

Digits == {"0","1","2","3","4","5","6","7","8","9"}

is_whitespace(ch) == ch \in {" ", "\n", "\t", "\r"}

is_alphabetic(ch) == ch \in Letters

is_digit(ch) == ch \in Digits

is_alphanumeric(ch) == ch \in Letters \cup Digits

IdentChars == Letters \cup Digits \cup {"_"}

(***************************************************************************)
(* Text helpers (the std::str operations the code calls).                  *)
(***************************************************************************)
starts_with(s, prefix) ==
    /\ Len(prefix) <= Len(s)
    /\ SubSeq(s, 1, Len(prefix)) = prefix

RECURSIVE trim_start(_)
trim_start(s) ==
    IF s # <<>> /\ is_whitespace(Head(s)) THEN trim_start(Tail(s)) ELSE s

RECURSIVE trim_end(_)
trim_end(s) ==
    IF s # <<>> /\ is_whitespace(s[Len(s)])
    THEN trim_end(SubSeq(s, 1, Len(s) - 1))
    ELSE s

trim(s) == trim_end(trim_start(s))

RECURSIVE join(_, _)
join(parts, sep) ==
    IF parts = <<>> THEN <<>>
    ELSE IF Len(parts) = 1 THEN parts[1]
    ELSE parts[1] \o sep \o join(Tail(parts), sep)

(***************************************************************************)
(* Lexer (src/tokenizer/lexer.rs).                                         *)
(***************************************************************************)
LexerNew(input) == [input |-> input, pos |-> 0, line |-> 1, column |-> 1]

peek(lx) == IF lx.pos < Len(lx.input) THEN lx.input[lx.pos + 1] ELSE None

peek_n(lx, n) ==
    IF lx.pos + n < Len(lx.input) THEN lx.input[lx.pos + n + 1] ELSE None

current_char(lx) == lx.input[lx.pos + 1]

current_char_opt(lx) ==
    IF lx.pos < Len(lx.input) THEN lx.input[lx.pos + 1] ELSE None

advance_same_line(lx) ==
    IF lx.pos < Len(lx.input)
    THEN [lx EXCEPT !.pos = @ + 1, !.column = @ + 1]
    ELSE lx

advance(lx) ==
    IF lx.pos < Len(lx.input)
    THEN IF lx.input[lx.pos + 1] = "\n"
         THEN [lx EXCEPT !.pos = @ + 1, !.line = @ + 1, !.column = 1]
         ELSE [lx EXCEPT !.pos = @ + 1, !.column = @ + 1]
    ELSE lx

RECURSIVE advance_by(_, _)
advance_by(lx, n) == IF n = 0 THEN lx ELSE advance_by(advance(lx), n - 1)

RECURSIVE consume_whitespace(_)
consume_whitespace(lx) ==
    IF lx.pos < Len(lx.input) /\ is_whitespace(current_char(lx))
    THEN consume_whitespace(advance(lx))
    ELSE lx

\* The predicate of collect_while is given as the set of characters it accepts.
RECURSIVE collect_while(_, _)
collect_while(lx, accepted) ==
    IF lx.pos < Len(lx.input) /\ current_char(lx) \in accepted
    THEN LET r == collect_while(advance(lx), accepted)
         IN  [lexer |-> r.lexer, result |-> <<current_char(lx)>> \o r.result]
    ELSE [lexer |-> lx, result |-> <<>>]

RECURSIVE collect_until(_, _)
collect_until(lx, delimiter) ==
    IF lx.pos < Len(lx.input) /\ current_char(lx) # delimiter
    THEN LET r == collect_until(advance(lx), delimiter)
         IN  [lexer |-> r.lexer, result |-> <<current_char(lx)>> \o r.result]
    ELSE [lexer |-> lx, result |-> <<>>]

\* Mutant of collect_until_str: stops at the first character of the delimiter.
collect_until_str_first_char(lx, delimiter) == collect_until(lx, delimiter[1])

RECURSIVE collect_until_str(_, _)
collect_until_str(lx, delimiter) ==
    IF lx.pos < Len(lx.input)
       /\ ~starts_with(SubSeq(lx.input, lx.pos + 1, Len(lx.input)), delimiter)
    THEN LET r == collect_until_str(advance(lx), delimiter)
         IN  [lexer |-> r.lexer, result |-> <<current_char(lx)>> \o r.result]
    ELSE [lexer |-> lx, result |-> <<>>]

(***************************************************************************)
(* Annotation Sub-Tokenizer (src/tokenizer/annotation_tokenizer.rs).       *)
(* A sub-token is [kind, parts]: parts holds the segments of an            *)
(* Identifier, and the one string of a Prefix, Operator or Text.           *)
(***************************************************************************)
SubToken(kind, parts) == [kind |-> kind, parts |-> parts]

PrefixAt == <<"-","-","-","@">>

PrefixBar == <<"-","-","-","|">>

is_annotation_punctuation(ch) == ch \in {":", ",", "<", ">", "(", ")", "|", "#"}

punctuation_token(ch) ==
    CASE ch = ":" -> SubToken("Colon", <<>>)
      [] ch = "," -> SubToken("Comma", <<>>)
      [] ch = "<" -> SubToken("LessThan", <<>>)
      [] ch = ">" -> SubToken("GreaterThan", <<>>)
      [] ch = "(" -> SubToken("OpenParen", <<>>)
      [] ch = ")" -> SubToken("CloseParen", <<>>)
      [] OTHER    -> SubToken("Operator", <<<<ch>>>>)

RECURSIVE read_identifier_vector(_, _, _)
read_identifier_vector(lx, parts, current) ==
    LET finished == [lexer |-> lx,
                     parts |-> IF current # <<>> THEN Append(parts, current) ELSE parts]
    IN  IF lx.pos < Len(lx.input)
        THEN LET c == current_char(lx)
             IN  IF is_alphanumeric(c) \/ c = "_"
                 THEN read_identifier_vector(advance(lx), parts, Append(current, c))
                 ELSE IF c = "."
                 THEN IF current # <<>>
                      THEN read_identifier_vector(advance(lx), Append(parts, current), <<>>)
                      ELSE read_identifier_vector(advance(lx), parts, current)
                 ELSE finished
        ELSE finished

read_identifier_vector_from_lexer(lx) == read_identifier_vector(lx, <<>>, <<>>)

\* The inner loop of tokenize_annotation that accumulates a free-text run.
RECURSIVE collect_text_run(_)
collect_text_run(lx) ==
    IF lx.pos < Len(lx.input)
       /\ ~(is_whitespace(current_char(lx)) \/ is_annotation_punctuation(current_char(lx)))
    THEN LET r == collect_text_run(advance(lx))
         IN  [lexer |-> r.lexer, result |-> <<current_char(lx)>> \o r.result]
    ELSE [lexer |-> lx, result |-> <<>>]

\* The main loop of tokenize_annotation.
RECURSIVE annotation_loop(_, _)
annotation_loop(lx, toks) ==
    IF lx.pos < Len(lx.input)
    THEN LET ch == current_char(lx)
         IN  IF is_whitespace(ch)
             THEN annotation_loop(advance(lx), toks)
             ELSE IF is_annotation_punctuation(ch)
             THEN annotation_loop(advance(lx), Append(toks, punctuation_token(ch)))
             ELSE IF is_alphabetic(ch) \/ ch = "_"
             THEN LET r == read_identifier_vector_from_lexer(lx)
                  IN  annotation_loop(r.lexer, Append(toks, SubToken("Identifier", r.parts)))
             ELSE LET r == collect_text_run(lx)
                  IN  annotation_loop(r.lexer, Append(toks, SubToken("Text", <<r.result>>)))
    ELSE toks

tokenize_annotation(text) ==
    LET lx == LexerNew(text)
    IN  IF starts_with(trim_start(text), PrefixAt)
        THEN annotation_loop(advance_by(lx, 4), <<SubToken("Prefix", <<PrefixAt>>)>>)
        ELSE IF starts_with(trim_start(text), PrefixBar)
        THEN annotation_loop(advance_by(lx, 4), <<SubToken("Prefix", <<PrefixBar>>)>>)
        ELSE annotation_loop(lx, <<>>)

parse_annotation_subtokens(text) == tokenize_annotation(text)

(***************************************************************************)
(* Code Tokenizer (src/tokenizer/code_tokenizer.rs).                       *)
(* A token is [kind, text, subtokens, span]; an Identifier token holds its *)
(* single segment in text.                                                 *)
(***************************************************************************)
Span(start, end, line, column) ==
    [start |-> start, end |-> end, line |-> line, column |-> column]

Token(kind, text, subtokens, span) ==
    [kind |-> kind, text |-> text, subtokens |-> subtokens, span |-> span]

Keywords ==
    { <<"a","n","d">>, <<"b","r","e","a","k">>, <<"d","o">>, <<"e","l","s","e">>,
      <<"e","l","s","e","i","f">>, <<"e","n","d">>, <<"f","a","l","s","e">>,
      <<"f","o","r">>, <<"f","u","n","c","t","i","o","n">>, <<"i","f">>, <<"i","n">>,
      <<"l","o","c","a","l">>, <<"n","i","l">>, <<"n","o","t">>, <<"o","r">>,
      <<"r","e","p","e","a","t">>, <<"r","e","t","u","r","n">>, <<"t","h","e","n">>,
      <<"t","r","u","e">>, <<"u","n","t","i","l">>, <<"w","h","i","l","e">>,
      <<"r","e","q","u","i","r","e">> }

is_keyword(ident) == ident \in Keywords

\* The test that guards the comment/annotation branch (line 27).
is_comment_start(lx) == current_char(lx) = "-" /\ peek(lx) = "-"

\* The branch of the if/else-if chain of one iteration of the loop of tokenize.
Branch(lx) ==
    LET ch == current_char(lx)
    IN  IF is_whitespace(ch) THEN "whitespace"
        ELSE IF is_comment_start(lx) THEN "comment"
        ELSE IF is_alphabetic(ch) \/ ch = "_" THEN "word"
        ELSE IF is_digit(ch) THEN "number"
        ELSE IF ch = "\"" \/ ch = "'" THEN "string"
        ELSE "operator"

\* Lines 37-48: lx stands on the first `[`.
block_comment_span(lx, content, start_line, start_col) ==
    Span(lx.pos, lx.pos + Len(content), start_line, start_col)

scan_block_comment(lx, toks, start_line, start_col) ==
    LET r == collect_until_str(advance(advance(lx)), <<"-","-","]","]">>)
    IN  [lexer  |-> advance_by(r.lexer, 4),
         tokens |-> Append(toks, Token("BlockComment", r.result, <<>>,
                        block_comment_span(r.lexer, r.result, start_line, start_col)))]

\* Mutant of annotation_text: the three dashes are not put back.
annotation_text_unprefixed(prefix_char, annotation_body) ==
    <<prefix_char>> \o annotation_body

\* The text handed to the sub-tokenizer (lines 61-64).
annotation_text(prefix_char, annotation_body) ==
    <<"-","-","-">> \o (<<prefix_char>> \o annotation_body)

\* Lines 55-66: lx stands on the third dash.
scan_annotation(lx, toks, start_pos, start_line, start_col) ==
    LET prefix_char == peek_n(lx, 1)
        r == collect_until(advance(advance(lx)), "\n")
    IN  [lexer  |-> r.lexer,
         tokens |-> Append(toks, Token("Annotation", <<>>,
                        parse_annotation_subtokens(annotation_text(prefix_char, r.result)),
                        Span(start_pos, r.lexer.pos, start_line, start_col)))]

\* Mutant of comment_span: the offsets are swapped.
comment_span_swapped(start_pos, lx, start_line, start_col) ==
    Span(lx.pos, start_pos, start_line, start_col)

comment_span(start_pos, lx, start_line, start_col) ==
    Span(start_pos, lx.pos, start_line, start_col)

\* Lines 71-75.
scan_line_comment(lx, toks, start_pos, start_line, start_col) ==
    LET r == collect_until(lx, "\n")
    IN  [lexer  |-> r.lexer,
         tokens |-> Append(toks, Token("Comment", r.result, <<>>,
                        comment_span(start_pos, r.lexer, start_line, start_col)))]

\* Mutant of scan_comment: any third dash makes the line an annotation.
scan_comment_any_third_dash(lx, toks) ==
    LET start_pos == lx.pos
        start_line == lx.line
        start_col == lx.column
        l2 == advance(advance(lx))
    IN  IF current_char_opt(l2) = "[" /\ peek_n(l2, 1) = "["
        THEN scan_block_comment(l2, toks, start_line, start_col)
        ELSE IF current_char_opt(l2) = "-" /\ peek_n(l2, 1) # None
        THEN scan_annotation(l2, toks, start_pos, start_line, start_col)
        ELSE scan_line_comment(l2, toks, start_pos, start_line, start_col)

\* Lines 27-76: the comment, block comment and annotation branch.
scan_comment(lx, toks) ==
    LET start_pos == lx.pos
        start_line == lx.line
        start_col == lx.column
        l2 == advance(advance(lx))
    IN  IF current_char_opt(l2) = "[" /\ peek_n(l2, 1) = "["
        THEN scan_block_comment(l2, toks, start_line, start_col)
        ELSE IF current_char_opt(l2) = "-" /\ peek_n(l2, 1) \in {"@", "|"}
        THEN scan_annotation(l2, toks, start_pos, start_line, start_col)
        ELSE scan_line_comment(l2, toks, start_pos, start_line, start_col)

\* Lines 79-94.
scan_word(lx, toks) ==
    LET r == collect_while(lx, IdentChars)
        span == Span(lx.pos, r.lexer.pos, lx.line, lx.column)
    IN  [lexer  |-> r.lexer,
         tokens |-> Append(toks, Token(IF is_keyword(r.result) THEN "Keyword" ELSE "Identifier",
                                       r.result, <<>>, span))]

\* Lines 96-102.
scan_number(lx, toks) ==
    LET r == collect_while(lx, Digits)
    IN  [lexer  |-> r.lexer,
         tokens |-> Append(toks, Token("NumberLiteral", r.result, <<>>,
                                       Span(lx.pos, r.lexer.pos, lx.line, lx.column)))]

\* Lines 103-113.
scan_string(lx, toks) ==
    LET quote == current_char(lx)
        r == collect_until(advance(lx), quote)
        after == advance(r.lexer)
    IN  [lexer  |-> after,
         tokens |-> Append(toks, Token("StringLiteral", r.result, <<>>,
                                       Span(lx.pos, after.pos, lx.line, lx.column)))]

\* Mutant of scan_operator: the character is pushed but not consumed.
scan_operator_unconsumed(lx, toks) ==
    [lexer  |-> lx,
     tokens |-> Append(toks, Token("Operator", <<current_char(lx)>>, <<>>,
                                   Span(lx.pos, lx.pos + 1, lx.line, lx.column)))]

\* Lines 115-122.
scan_operator(lx, toks) ==
    [lexer  |-> advance(lx),
     tokens |-> Append(toks, Token("Operator", <<current_char(lx)>>, <<>>,
                                   Span(lx.pos, lx.pos + 1, lx.line, lx.column)))]

(***************************************************************************)
(* Inputs of the tokenizer: concatenations of at most MaxFragments         *)
(* fragments.                                                              *)
(***************************************************************************)
Fragments ==
    { <<"-">>, <<"-","-">>, <<"[","[">>, <<"-","-","]","]">>, <<"-","@">>, <<"|">>,
      <<"\n">>, <<" ","f","o","o">>, <<"7">>, <<"\"">> }

RECURSIVE Concatenations(_, _)
Concatenations(fragments, n) ==
    IF n = 0 THEN { <<>> }
    ELSE LET shorter == Concatenations(fragments, n - 1)
         IN  shorter \cup { s \o f : s \in shorter, f \in fragments }

SourceTexts == Concatenations(Fragments, MaxFragments)

(***************************************************************************)
(* CodeTokenizer::tokenize, one action for each branch of an iteration of  *)
(* its loop, and one for its return.                                       *)
(***************************************************************************)
Scanning(branch) ==
    /\ pc = "tokenize"
    /\ lexer.pos < Len(lexer.input)
    /\ Branch(lexer) = branch

SkipWhitespace ==
    /\ Scanning("whitespace")
    /\ lexer' = consume_whitespace(lexer)
    /\ UNCHANGED <<tokens, last_call, pc, apVars, anVars, cpVars, taVars>>

ScanComment ==
    /\ Scanning("comment")
    /\ LET r == scan_comment(lexer, tokens)
       IN  lexer' = r.lexer /\ tokens' = r.tokens
    /\ UNCHANGED <<last_call, pc, apVars, anVars, cpVars, taVars>>

ScanWord ==
    /\ Scanning("word")
    /\ LET r == scan_word(lexer, tokens)
       IN  lexer' = r.lexer /\ tokens' = r.tokens
    /\ UNCHANGED <<last_call, pc, apVars, anVars, cpVars, taVars>>

ScanNumber ==
    /\ Scanning("number")
    /\ LET r == scan_number(lexer, tokens)
       IN  lexer' = r.lexer /\ tokens' = r.tokens
    /\ UNCHANGED <<last_call, pc, apVars, anVars, cpVars, taVars>>

ScanString ==
    /\ Scanning("string")
    /\ LET r == scan_string(lexer, tokens)
       IN  lexer' = r.lexer /\ tokens' = r.tokens
    /\ UNCHANGED <<last_call, pc, apVars, anVars, cpVars, taVars>>

ScanOperator ==
    /\ Scanning("operator")
    /\ LET r == scan_operator(lexer, tokens)
       IN  lexer' = r.lexer /\ tokens' = r.tokens
    /\ UNCHANGED <<last_call, pc, apVars, anVars, cpVars, taVars>>

TokenizeReturn ==
    /\ pc = "tokenize"
    /\ ~(lexer.pos < Len(lexer.input))
    /\ pc' = "tokenized"
    /\ UNCHANGED <<tokVars, apVars, anVars, cpVars, taVars>>

Tokenize ==
    \/ SkipWhitespace
    \/ ScanComment
    \/ ScanWord
    \/ ScanNumber
    \/ ScanString
    \/ ScanOperator
    \/ TokenizeReturn

IdleParser == ap_pos = 0 /\ annotations = <<>>

\* ScopeContext::new().
ScopeContextNew == [variables |-> {}, parent |-> <<>>, function_returns |-> <<>>]

IdleCodeParser == cp_pos = 0 /\ nodes = <<>>

IdleAnalyzer ==
    /\ frames = <<>>
    /\ current_scope = ScopeContextNew
    /\ entry_scope = ScopeContextNew
    /\ modules = {}
    /\ inferred_returns = <<>>

IdleAnnotator ==
    /\ ast = <<>>
    /\ node_idx = 0
    /\ current_module = <<>>
    /\ preserve_existing = TRUE
    /\ output = <<>>
    /\ rendered = <<>>

NoCall == [op |-> "new", value |-> <<>>]

IdleTokenizer == lexer = LexerNew(<<>>) /\ tokens = <<>> /\ last_call = NoCall

\* CodeTokenizer::new(input) for every input of SourceTexts.
TokInit ==
    /\ lexer \in { LexerNew(input) : input \in SourceTexts }
    /\ last_call = NoCall
    /\ tokens = <<>>
    /\ pc = "tokenize"
    /\ IdleParser
    /\ IdleAnnotator
    /\ IdleCodeParser
    /\ IdleAnalyzer

TokSpec == TokInit /\ [][Tokenize]_vars

(***************************************************************************)
(* String literals of src/annotator.rs, and the names and doc strings of    *)
(* the trees of the model.                                                 *)
(***************************************************************************)
STR_string == <<"s","t","r","i","n","g">>

STR_number == <<"n","u","m","b","e","r">>

STR_boolean == <<"b","o","o","l","e","a","n">>

STR_any == <<"a","n","y">>

STR_table_open == <<"t","a","b","l","e","<">>

STR_fun_open == <<"f","u","n","(">>

STR_arrow == <<")"," ","-",">"," ">>

STR_colon_space == <<":"," ">>

STR_comma_space == <<","," ">>

STR_todo == <<" ","@","T","O","D","O",":"," ","S","p","e","c","i","f","y"," ","t","y","p","e">>

STR_module == <<"-","-","-","@","m","o","d","u","l","e"," ">>

STR_exports == <<"-","-","-","E","x","p","o","r","t","s",":","\n">>

STR_field == <<"-","-","-","@","f","i","e","l","d"," ">>

STR_function == <<"-","-","-","@","f","u","n","c","t","i","o","n"," ">>

STR_param == <<"-","-","-","@","p","a","r","a","m"," ">>

STR_return == <<"-","-","-","@","r","e","t","u","r","n"," ">>

STR_dependency == <<"-","-","-","@","d","e","p","e","n","d","e","n","c","y"," ">>

NAME_value == <<"v","a","l","u","e">>

NAME_options == <<"o","p","t","i","o","n","s">>

NAME_extra == <<"e","x","t","r","a">>

NAME_get_user == <<"g","e","t","_","u","s","e","r">>

NAME_version == <<"v","e","r","s","i","o","n">>

NAME_calculate == <<"c","a","l","c","u","l","a","t","e">>

NAME_M_calculate == <<"u","t","i","l",".","c","a","l","c","u","l","a","t","e">>

DOC_adds == <<" ","A","d","d","s",".">>

DOC_function == <<"-","@","f","u","n","c","t","i","o","n"," ","c","a","l","c","u","l","a","t","e">>

DOC_param == <<"-","@","p","a","r","a","m"," ","v","a","l","u","e"," ","n","u","m","b","e","r">>

DOC_return == <<"-","@","r","e","t","u","r","n"," ","n","u","m","b","e","r">>

(***************************************************************************)
(* TypeInfo as the Annotator matches it (src/annotator.rs, lines 139-181): *)
(* [tag, names, args, returns].  Optional holds its inner type in args,    *)
(* Union its members, Table its field names and types in names and args,   *)
(* Function its parameters in names and args and its returns in returns.   *)
(***************************************************************************)
TypeInfo(tag, names, args, returns) ==
    [tag |-> tag, names |-> names, args |-> args, returns |-> returns]

TString == TypeInfo("String", <<>>, <<>>, <<>>)

TNumber == TypeInfo("Number", <<>>, <<>>, <<>>)

TBoolean == TypeInfo("Boolean", <<>>, <<>>, <<>>)

TUnknown == TypeInfo("Unknown", <<>>, <<>>, <<>>)

TOptional(inner) == TypeInfo("Optional", <<>>, <<inner>>, <<>>)

TUnion(types) == TypeInfo("Union", <<>>, types, <<>>)

(***************************************************************************)
(* Annotator (src/annotator.rs).                                           *)
(***************************************************************************)
\* str::lines: the pieces between line feeds, without a final empty piece.
RECURSIVE lines(_)
lines(text) ==
    IF text = <<>> THEN <<>>
    ELSE LET eol == CHOOSE i \in 1..(Len(text) + 1) :
                        /\ i = Len(text) + 1 \/ text[i] = "\n"
                        /\ \A j \in 1..(i - 1) : text[j] # "\n"
         IN  <<SubSeq(text, 1, eol - 1)>> \o lines(SubSeq(text, eol + 1, Len(text)))

\* full_name.split('.').last(): the text after the last dot.
last_segment(full_name) ==
    LET dots == { i \in 1..Len(full_name) : full_name[i] = "." }
    IN  IF dots = {} THEN full_name
        ELSE SubSeq(full_name, (CHOOSE i \in dots : \A j \in dots : j <= i) + 1,
                    Len(full_name))

\* Mutant of type_to_string_rec: the `?` of an Optional is dropped.
RECURSIVE type_to_string_no_mark(_)
type_to_string_no_mark(type_info) ==
    CASE type_info.tag = "String"  -> STR_string
      [] type_info.tag = "Number"  -> STR_number
      [] type_info.tag = "Boolean" -> STR_boolean
      [] type_info.tag = "Union"   ->
            join([i \in 1..Len(type_info.args) |-> type_to_string_no_mark(type_info.args[i])],
                 <<"|">>)
      [] type_info.tag = "Optional" -> type_to_string_no_mark(type_info.args[1])
      [] OTHER -> STR_any

RECURSIVE type_to_string_rec(_)
type_to_string_rec(type_info) ==
    CASE type_info.tag = "String"  -> STR_string
      [] type_info.tag = "Number"  -> STR_number
      [] type_info.tag = "Boolean" -> STR_boolean
      [] type_info.tag = "Union"   ->
            join([i \in 1..Len(type_info.args) |-> type_to_string_rec(type_info.args[i])],
                 <<"|">>)
      [] type_info.tag = "Table"   ->
            STR_table_open
            \o join([i \in 1..Len(type_info.args) |->
                        type_info.names[i] \o STR_colon_space
                        \o type_to_string_rec(type_info.args[i])], STR_comma_space)
            \o <<">">>
      [] type_info.tag = "Function" ->
            STR_fun_open
            \o join([i \in 1..Len(type_info.args) |->
                        type_info.names[i] \o STR_colon_space
                        \o type_to_string_rec(type_info.args[i])], STR_comma_space)
            \o STR_arrow
            \o join([i \in 1..Len(type_info.returns) |->
                        type_to_string_rec(type_info.returns[i])], STR_comma_space)
      [] type_info.tag = "Optional" -> type_to_string_rec(type_info.args[1]) \o <<"?">>
      [] type_info.tag = "Unknown" -> STR_any

type_to_string(type_info) == type_to_string_rec(type_info)

RECURSIVE type_comment_suffix(_)
type_comment_suffix(type_info) ==
    CASE type_info.tag = "Unknown"  -> STR_todo
      [] type_info.tag = "Optional" -> type_comment_suffix(type_info.args[1])
      [] OTHER -> <<>>

RECURSIVE concat(_)
concat(pieces) == IF pieces = <<>> THEN <<>> ELSE Head(pieces) \o concat(Tail(pieces))

\* Mutant of format_module_header: the marker line is not guarded.
format_module_header_unguarded(name, exports) ==
    STR_module \o name \o <<"\n">> \o STR_exports
    \o concat([i \in 1..Len(exports) |->
                  STR_field \o exports[i].name \o <<" ">>
                  \o type_to_string(exports[i].type_info) \o <<"\n">>])

format_module_header(name, exports) ==
    STR_module \o name \o <<"\n">>
    \o (IF exports # <<>>
        THEN STR_exports
             \o concat([i \in 1..Len(exports) |->
                           STR_field \o exports[i].name \o <<" ">>
                           \o type_to_string(exports[i].type_info) \o <<"\n">>])
        ELSE <<>>)

format_function(preserve, full_name, params, returns, docs) ==
    LET name == last_segment(full_name)
    IN  (IF preserve
         THEN concat([i \in 1..Len(docs) |-> <<"-","-">> \o docs[i] \o <<"\n">>])
         ELSE <<>>)
        \o STR_function \o name \o <<"\n">>
        \o concat([i \in 1..Len(params) |->
                      STR_param \o params[i].name \o <<" ">>
                      \o type_to_string(params[i].type_info)
                      \o type_comment_suffix(params[i].type_info) \o <<"\n">>])
        \o (IF returns # <<>>
            THEN STR_return
                 \o join([i \in 1..Len(returns) |-> type_to_string(returns[i])],
                         STR_comma_space)
                 \o <<"\n">>
            ELSE <<>>)

\* alias is an Option: << >> for None, <<a>> for Some(a).
format_require(module, alias) ==
    IF alias # <<>>
    THEN STR_dependency \o alias[1] \o <<" ",":"," ">> \o module \o <<"\n">>
    ELSE STR_dependency \o module \o <<"\n">>

format_existing_comment(preserve, text) ==
    IF preserve
    THEN join([i \in 1..Len(lines(text)) |-> <<"-","-">> \o lines(text)[i]], <<"\n">>)
    ELSE <<>>

\* A node of the tree the Annotator reads (ASTNode of src/parser.rs).
Node(kind, name, params, return_types, docs, exports, text, alias) ==
    [kind |-> kind, name |-> name, params |-> params, return_types |-> return_types,
     docs |-> docs, exports |-> exports, text |-> text, alias |-> alias]

FunctionDef(name, params, return_types, docs) ==
    Node("FunctionDef", name, params, return_types, docs, <<>>, <<>>, <<>>)

ModuleDeclaration(name, exports) ==
    Node("ModuleDeclaration", name, <<>>, <<>>, <<>>, exports, <<>>, <<>>)

CommentBlock(text) == Node("CommentBlock", <<>>, <<>>, <<>>, <<>>, <<>>, text, <<>>)

RequireStatement(module, alias) ==
    Node("RequireStatement", module, <<>>, <<>>, <<>>, <<>>, <<>>, alias)

\* The string process_node returns.
process_node(preserve, module, node) ==
    CASE node.kind = "ModuleDeclaration" -> format_module_header(node.name, node.exports)
      [] node.kind = "FunctionDef" ->
            format_function(preserve, module \o <<".">> \o node.name, node.params,
                            node.return_types, node.docs)
      [] node.kind = "RequireStatement" -> format_require(node.name, node.alias)
      [] node.kind = "CommentBlock" -> format_existing_comment(preserve, node.text)
      [] OTHER -> <<>>

(***************************************************************************)
(* Trees handed to the Annotator.                                          *)
(***************************************************************************)
RECURSIVE SeqsUpTo(_, _)
SeqsUpTo(S, n) ==
    IF n = 0 THEN { <<>> }
    ELSE LET shorter == SeqsUpTo(S, n - 1)
         IN  shorter \cup { Append(s, x) : s \in shorter, x \in S }

TypeInfos ==
    { TNumber, TString, TUnknown, TOptional(TString), TOptional(TUnknown),
      TUnion(<<TBoolean, TNumber>>) }

ParamNames == << NAME_value, NAME_options, NAME_extra >>

ExportNames == << NAME_get_user, NAME_version, NAME_extra >>

\* The i-th name of a list of names, repeated when the list is exhausted.
NameAt(names, i) == names[((i - 1) % Len(names)) + 1]

Named(names, types) ==
    [i \in 1..Len(types) |-> [name |-> NameAt(names, i), type_info |-> types[i]]]

DocStrings == { DOC_adds, DOC_function, DOC_param, DOC_return }

\* The function of the test basic_annotation_generation.
CalculateDef ==
    FunctionDef(NAME_calculate, Named(ParamNames, <<TNumber, TUnknown>>),
                <<TNumber, TOptional(TString)>>, <<>>)

\* A function whose parameters are Unknown under two Optionals and under one.
NestedOptionalDef ==
    FunctionDef(NAME_calculate,
                Named(ParamNames, <<TOptional(TOptional(TUnknown)), TOptional(TUnknown)>>),
                <<>>, <<>>)

\* Functions without docs: parameters over every type, return types over
\* every type, and the function of the test.
TypedDefs ==
    { FunctionDef(NAME_calculate, Named(ParamNames, ts), rs, <<>>) :
        ts \in SeqsUpTo(TypeInfos, MaxParams),
        rs \in SeqsUpTo({TNumber}, MaxReturns) }
    \cup
    { FunctionDef(NAME_calculate, Named(ParamNames, ts), rs, <<>>) :
        ts \in SeqsUpTo({TUnknown}, MaxParams),
        rs \in SeqsUpTo(TypeInfos, MaxReturns) }
    \cup { CalculateDef, NestedOptionalDef }

\* Functions with docs.
DocumentedDefs ==
    { FunctionDef(n, Named(ParamNames, ts), rs, ds) :
        n \in { NAME_calculate, NAME_M_calculate },
        ts \in SeqsUpTo({TNumber}, MaxParams),
        rs \in { <<>>, <<TNumber>> },
        ds \in SeqsUpTo(DocStrings, MaxDocs) \ { <<>> } }

Modules ==
    { ModuleDeclaration(<<"M">>, Named(ExportNames, ts)) :
        ts \in SeqsUpTo({TUnknown, TNumber, TOptional(TString)}, MaxExports) }

OtherNodes ==
    { CommentBlock(DOC_adds), CommentBlock(DOC_adds \o <<"\n">> \o DOC_adds),
      RequireStatement(NAME_extra, <<>>), RequireStatement(NAME_extra, << <<"M">> >>) }

Trees ==
    { <<n>> : n \in TypedDefs \cup DocumentedDefs \cup Modules \cup OtherNodes }
    \cup { <<ModuleDeclaration(<<"M">>, <<>>), f>> : f \in DocumentedDefs }

(***************************************************************************)
(* Annotator::generate_docs: one action for each iteration of its loop,    *)
(* and one for its return.                                                 *)
(***************************************************************************)
ProcessNode ==
    /\ pc = "annotate"
    /\ node_idx < Len(ast)
    /\ LET node == ast[node_idx + 1]
       IN  /\ rendered' = process_node(preserve_existing, current_module, node)
           /\ output' = output \o rendered' \o <<"\n">>
           /\ current_module' = IF node.kind = "ModuleDeclaration"
                                THEN node.name ELSE current_module
    /\ node_idx' = node_idx + 1
    /\ UNCHANGED <<ast, preserve_existing, pc, tokVars, apVars, cpVars, taVars>>

GenerateDocsReturn ==
    /\ pc = "annotate"
    /\ node_idx = Len(ast)
    /\ pc' = "annotated"
    /\ UNCHANGED <<anVars, tokVars, apVars, cpVars, taVars>>

GenerateDocs == ProcessNode \/ GenerateDocsReturn

\* Annotator::new(), with preserve_existing (a public field) set either way.
AnnotatorInit ==
    /\ ast \in Trees
    /\ node_idx = 0
    /\ current_module = <<>>
    /\ preserve_existing \in BOOLEAN
    /\ output = <<>>
    /\ rendered = <<>>
    /\ pc = "annotate"
    /\ IdleTokenizer
    /\ IdleParser
    /\ IdleCodeParser
    /\ IdleAnalyzer

AnnotatorSpec == AnnotatorInit /\ [][GenerateDocs]_vars

(***************************************************************************)
(* Annotation Parser (src/parser/annotation_parser.rs).                    *)
(* A node is [kind, name, type_field, description, variants, keyword,      *)
(* content]; an Option is << >> for None and <<x>> for Some(x).  The       *)
(* sub-parsers modelled are those of alias, as, async, deprecated,         *)
(* nodiscard, package, param, private, protected and the generic one; the  *)
(* annotation lines of the model use no other known keyword.               *)
(***************************************************************************)
AnnotationNode(kind, name, type_field, description, variants, keyword, content) ==
    [kind |-> kind, name |-> name, type_field |-> type_field,
     description |-> description, variants |-> variants,
     keyword |-> keyword, content |-> content]

MarkerNode(kind) == AnnotationNode(kind, <<>>, <<>>, <<>>, <<>>, <<>>, <<>>)

NoSubToken == SubToken("None", <<>>)

\* tokens.get(pos), with the 0-based pos of the code.
Get(subtokens, pos) ==
    IF pos < Len(subtokens) THEN subtokens[pos + 1] ELSE NoSubToken

IsOperator(subtoken, op) == subtoken.kind = "Operator" /\ subtoken.parts = <<op>>

\* The while loop of parse_alias (lines 110-138).
RECURSIVE alias_variants(_, _, _)
alias_variants(subtokens, pos, variants) ==
    IF pos < Len(subtokens) /\ IsOperator(Get(subtokens, pos), <<"|">>)
    THEN LET p1 == pos + 1
             has_value == Get(subtokens, p1).kind \in {"Identifier", "Text"}
             variant == IF Get(subtokens, p1).kind = "Identifier"
                        THEN join(Get(subtokens, p1).parts, <<".">>)
                        ELSE IF Get(subtokens, p1).kind = "Text"
                        THEN Get(subtokens, p1).parts[1]
                        ELSE <<>>
             p2 == IF has_value THEN p1 + 1 ELSE p1
             hash == IsOperator(Get(subtokens, p2), <<"#">>)
             p3 == IF hash THEN p2 + 1 ELSE p2
             has_desc == hash /\ Get(subtokens, p3).kind = "Text"
             desc == IF has_desc THEN <<Get(subtokens, p3).parts[1]>> ELSE <<>>
             p4 == IF has_desc THEN p3 + 1 ELSE p3
         IN  alias_variants(subtokens, p4,
                            Append(variants, [value |-> variant, description |-> desc]))
    ELSE variants

parse_alias(subtokens) ==
    IF Get(subtokens, 1).kind = "Identifier"
    THEN << AnnotationNode("Alias", join(Get(subtokens, 1).parts, <<".">>), <<>>, <<>>,
                           alias_variants(subtokens, 2, <<>>), <<>>, <<>>) >>
    ELSE <<>>

parse_as(subtokens) ==
    IF Get(subtokens, 1).kind = "Identifier"
    THEN << AnnotationNode("As", join(Get(subtokens, 1).parts, <<".">>), <<>>, <<>>,
                           <<>>, <<>>, <<>>) >>
    ELSE <<>>

\* The while loops of parse_param and parse_generic: the Text sub-tokens from
\* pos on, each followed by a space.
RECURSIVE text_run(_, _)
text_run(subtokens, pos) ==
    IF pos < Len(subtokens) /\ Get(subtokens, pos).kind = "Text"
    THEN Get(subtokens, pos).parts[1] \o <<" ">> \o text_run(subtokens, pos + 1)
    ELSE <<>>

parse_param(subtokens) ==
    IF Get(subtokens, 1).kind = "Identifier" /\ Get(subtokens, 2).kind = "Identifier"
    THEN LET description == text_run(subtokens, 3)
         IN  << AnnotationNode("Param", join(Get(subtokens, 1).parts, <<".">>),
                               join(Get(subtokens, 2).parts, <<".">>),
                               IF trim(description) = <<>> THEN <<>>
                               ELSE <<trim(description)>>,
                               <<>>, <<>>, <<>>) >>
    ELSE <<>>

\* parse_generic, read with a cursor over the sub-tokens it is given, as every
\* other sub-parser: the text of lines 188-209 takes the keyword and the
\* content from self.advance() and self.peek(), which yield the tokens of the
\* stream, and does not type-check.
parse_generic(subtokens) ==
    IF Get(subtokens, 0).kind = "Identifier"
    THEN << AnnotationNode("Generic", <<>>, <<>>, <<>>, <<>>,
                           join(Get(subtokens, 0).parts, <<".">>),
                           trim(text_run(subtokens, 1))) >>
    ELSE <<>>

MarkerKeywords ==
    [k \in { <<"a","s","y","n","c">>, <<"d","e","p","r","e","c","a","t","e","d">>,
             <<"n","o","d","i","s","c","a","r","d">>, <<"p","a","c","k","a","g","e">>,
             <<"p","r","i","v","a","t","e">>, <<"p","r","o","t","e","c","t","e","d">> } |->
        CASE k = <<"a","s","y","n","c">> -> "Async"
          [] k = <<"d","e","p","r","e","c","a","t","e","d">> -> "Deprecated"
          [] k = <<"n","o","d","i","s","c","a","r","d">> -> "Nondiscard"
          [] k = <<"p","a","c","k","a","g","e">> -> "Package"
          [] k = <<"p","r","i","v","a","t","e">> -> "Private"
          [] k = <<"p","r","o","t","e","c","t","e","d">> -> "Protected"]

\* Lines 49-95.
parse_annotation_token(subtokens) ==
    LET toks == IF subtokens # <<>> /\ subtokens[1].kind = "Prefix"
                THEN Tail(subtokens) ELSE subtokens
    IN  IF Get(toks, 0).kind # "Identifier" THEN parse_generic(toks)
        ELSE LET keyword == join(Get(toks, 0).parts, <<".">>)
             IN  CASE keyword = <<"a","l","i","a","s">> -> parse_alias(toks)
                   [] keyword = <<"a","s">> -> parse_as(toks)
                   [] keyword = <<"p","a","r","a","m">> -> parse_param(toks)
                   [] keyword \in DOMAIN MarkerKeywords -> << MarkerNode(MarkerKeywords[keyword]) >>
                   [] OTHER -> parse_generic(toks)

(***************************************************************************)
(* AnnotationParser::parse over the tokens of the tokenizer: one action    *)
(* for each arm of the match of its loop, and one for its return.          *)
(***************************************************************************)
ParseAnnotation ==
    /\ pc = "tokenized"
    /\ ap_pos < Len(tokens)
    /\ tokens[ap_pos + 1].kind = "Annotation"
    /\ annotations' = annotations \o parse_annotation_token(tokens[ap_pos + 1].subtokens)
    /\ ap_pos' = ap_pos + 1
    /\ UNCHANGED <<pc, tokVars, anVars, cpVars, taVars>>

\* Mutant of SkipToken: a token that is no annotation leaves a node.
SkipTokenRecorded ==
    /\ pc = "tokenized"
    /\ ap_pos < Len(tokens)
    /\ tokens[ap_pos + 1].kind # "Annotation"
    /\ annotations' = Append(annotations,
                             AnnotationNode("Generic", <<>>, <<>>, <<>>, <<>>,
                                            tokens[ap_pos + 1].text, <<>>))
    /\ ap_pos' = ap_pos + 1
    /\ UNCHANGED <<pc, tokVars, anVars, cpVars, taVars>>

SkipToken ==
    /\ pc = "tokenized"
    /\ ap_pos < Len(tokens)
    /\ tokens[ap_pos + 1].kind # "Annotation"
    /\ ap_pos' = ap_pos + 1
    /\ UNCHANGED <<annotations, pc, tokVars, anVars, cpVars, taVars>>

ParseReturn ==
    /\ pc = "tokenized"
    /\ ~(ap_pos < Len(tokens))
    /\ pc' = "parsed"
    /\ UNCHANGED <<apVars, tokVars, anVars, cpVars, taVars>>

AnnotationParse == ParseAnnotation \/ SkipToken \/ ParseReturn

LINE_alias == <<"-","-","-","@","a","l","i","a","s"," ","D","e","v","i","c","e","S","i","d","e","\n">>

LINE_left == <<"-","-","-","|"," ","'","\"","l","e","f","t","\"","'"," ","#"," ","T","h","e"," ","l","e","f","t"," ","s","i","d","e"," ","o","f"," ","t","h","e"," ","d","e","v","i","c","e","\n">>

LINE_right == <<"-","-","-","|"," ","'","\"","r","i","g","h","t","\"","'"," ","#"," ","T","h","e"," ","r","i","g","h","t"," ","s","i","d","e"," ","o","f"," ","t","h","e"," ","d","e","v","i","c","e","\n">>

LINE_inline == <<"-","-","-","@","a","l","i","a","s"," ","S","i","d","e"," ","|"," ","l","e","f","t"," ","#"," ","1","s","t"," ","|"," ","'","r","'","\n">>

LINE_async == <<"-","-","-","@","a","s","y","n","c","\n">>

LINE_generic == <<"-","-","-","@","s","i","n","c","e"," ","1","2"," ","3","4","\n">>

LINE_code == <<"l","o","c","a","l"," ","x"," ","="," ","\"","a","\""," ","1","\n">>

LINE_Param == <<"-","-","-","@","P","a","r","a","m"," ","x"," ","s","t","r","i","n","g","\n">>

LINE_param == <<"-","-","-","@","p","a","r","a","m"," ","x"," ","s","t","r","i","n","g","\n">>

LINE_ALIAS == <<"-","-","-","@","A","L","I","A","S"," ","T","\n">>

LINE_param_words == <<"-","-","-","@","p","a","r","a","m"," ","x"," ","s","t","r","i","n","g"," ","t","h","e"," ","v","a","l","u","e","\n">>

LINE_param_text == <<"-","-","-","@","p","a","r","a","m"," ","x"," ","s","t","r","i","n","g"," ","1","s","t"," ","2","n","d","\n">>

LINE_param_name == <<"-","-","-","@","p","a","r","a","m"," ","x","\n">>

SourceLines ==
    { LINE_alias, LINE_left, LINE_right, LINE_inline, LINE_async, LINE_generic, LINE_code }

KeywordLines ==
    { LINE_Param, LINE_param, LINE_ALIAS, LINE_param_words, LINE_param_text,
      LINE_param_name, LINE_code }

AnnotatedTexts ==
    Concatenations(SourceLines, MaxLines) \cup Concatenations(KeywordLines, MaxLines - 1)

\* CodeTokenizer::new(input), then AnnotationParser::new(tokens).
AnnotationInit ==
    /\ lexer \in { LexerNew(input) : input \in AnnotatedTexts }
    /\ last_call = NoCall
    /\ tokens = <<>>
    /\ pc = "tokenize"
    /\ IdleParser
    /\ IdleAnnotator
    /\ IdleCodeParser
    /\ IdleAnalyzer

AnnotationSpec == AnnotationInit /\ [][Tokenize \/ AnnotationParse]_vars

(***************************************************************************)
(* Code Parser (src/parser/code_parser.rs).                                *)
(* A node is [kind, name, params, exports, exprs, body, else_block, value, *)
(* doc, fields]; the fields a variant does not have are empty.  An Option  *)
(* is << >> for None and <<x>> for Some(x).  A sub-parser returns the      *)
(* cursor it leaves with what it parsed.                                   *)
(***************************************************************************)
CodeASTNode(kind, name, params, exports, exprs, body, else_block, value, doc, fields) ==
    [kind |-> kind, name |-> name, params |-> params, exports |-> exports,
     exprs |-> exprs, body |-> body, else_block |-> else_block, value |-> value,
     doc |-> doc, fields |-> fields, return_types |-> <<>>]

Expression(kind, text) == [kind |-> kind, text |-> text]

ExportItem(name, type_info) == [name |-> name, type_info |-> type_info]

NoToken == Token("None", <<>>, <<>>, Span(0, 0, 0, 0))

\* self.tokens.get(pos).
TokenAt(toks, pos) == IF pos < Len(toks) THEN toks[pos + 1] ELSE NoToken

IsKeyword(tok, word) == tok.kind = "Keyword" /\ tok.text = word

IsOp(tok, op) == tok.kind = "Operator" /\ tok.text = op

KW_function == <<"f","u","n","c","t","i","o","n">>

KW_local == <<"l","o","c","a","l">>

KW_return == <<"r","e","t","u","r","n">>

KW_if == <<"i","f">>

KW_while == <<"w","h","i","l","e">>

KW_for == <<"f","o","r">>

KW_do == <<"d","o">>

KW_repeat == <<"r","e","p","e","a","t">>

KW_end == <<"e","n","d">>

KW_else == <<"e","l","s","e">>

KW_until == <<"u","n","t","i","l">>

\* Lines 40-48.
RECURSIVE skip_annotation_tokens(_, _)
skip_annotation_tokens(toks, pos) ==
    IF pos < Len(toks) /\ TokenAt(toks, pos).kind = "Annotation"
    THEN skip_annotation_tokens(toks, pos + 1)
    ELSE pos

\* Lines 51-58.
parse_doc(toks, pos) ==
    IF TokenAt(toks, pos).kind = "Comment"
    THEN [pos |-> pos + 1, doc |-> <<TokenAt(toks, pos).text>>]
    ELSE [pos |-> pos, doc |-> <<>>]

peek_assignment(toks, pos) == TokenAt(toks, pos + 1).kind = "Assignment"

peek_function_call(toks, pos) == TokenAt(toks, pos + 1).kind = "ParenOpen"

match_token_variant(toks, pos, variant) ==
    /\ variant \in {"ParenOpen", "ParenClose", "BraceOpen", "BraceClose",
                    "BracketOpen", "BracketClose"}
    /\ TokenAt(toks, pos).kind = variant

\* Lines 388-411.
parse_expression(toks, pos) ==
    LET tok == TokenAt(toks, pos)
    IN  CASE tok.kind = "Identifier" ->
                 [pos |-> pos + 1, expr |-> <<Expression("Identifier", tok.text)>>]
          [] tok.kind \in {"NumberLiteral", "StringLiteral"} ->
                 [pos |-> pos + 1, expr |-> <<Expression("Literal", tok.text)>>]
          [] OTHER -> [pos |-> pos, expr |-> <<>>]

\* The while loop of parse_qualified_name (lines 158-185).
RECURSIVE qualified_name_loop(_, _, _)
qualified_name_loop(toks, pos, name) ==
    IF IsOp(TokenAt(toks, pos), <<".">>)
    THEN IF TokenAt(toks, pos + 1).kind \in {"Identifier", "Keyword"}
         THEN qualified_name_loop(toks, pos + 2,
                                  name \o <<".">> \o TokenAt(toks, pos + 1).text)
         ELSE [pos |-> pos + 1, name |-> <<name>>]
    ELSE [pos |-> pos, name |-> <<name>>]

\* Lines 141-187.
parse_qualified_name(toks, pos) ==
    IF TokenAt(toks, pos).kind \in {"Identifier", "Keyword"}
    THEN qualified_name_loop(toks, pos + 1, TokenAt(toks, pos).text)
    ELSE [pos |-> pos, name |-> <<>>]

\* Lines 189-209.
RECURSIVE parse_parameters(_, _, _)
parse_parameters(toks, pos, params) ==
    IF pos < Len(toks) /\ TokenAt(toks, pos).kind # "ParenClose"
    THEN LET found == IF TokenAt(toks, pos).kind = "Identifier"
                      THEN Append(params, [name |-> TokenAt(toks, pos).text,
                                           type_info |-> TUnknown])
                      ELSE params
             p1 == pos + 1
             p2 == IF IsOp(TokenAt(toks, p1), <<",">>) THEN p1 + 1 ELSE p1
         IN  parse_parameters(toks, p2, found)
    ELSE [pos |-> pos, params |-> params]

\* The while loop of parse_return_statement (lines 294-313).
RECURSIVE return_exprs(_, _, _)
return_exprs(toks, pos, exprs) ==
    LET tok == TokenAt(toks, pos)
    IN  CASE tok.kind = "Identifier" ->
                 return_exprs(toks, pos + 1, Append(exprs, Expression("Identifier", tok.text)))
          [] tok.kind \in {"NumberLiteral", "StringLiteral"} ->
                 return_exprs(toks, pos + 1, Append(exprs, Expression("Literal", tok.text)))
          [] IsOp(tok, <<",">>) -> return_exprs(toks, pos + 1, exprs)
          [] OTHER -> [pos |-> pos, exprs |-> exprs]

\* Lines 291-315.
parse_return_statement(toks, pos, doc) ==
    LET r == return_exprs(toks, pos + 1, <<>>)
    IN  [pos |-> r.pos,
         node |-> << CodeASTNode("ReturnStatement", <<>>, <<>>, <<>>, r.exprs, <<>>,
                                 <<>>, <<>>, <<>>, <<>>) >>]

\* The while loop of parse_table_exports (lines 362-384).
RECURSIVE table_exports_loop(_, _, _)
table_exports_loop(toks, pos, exports) ==
    IF pos < Len(toks)
    THEN IF TokenAt(toks, pos).kind = "BraceClose"
         THEN [pos |-> pos + 1, exports |-> exports]
         ELSE IF TokenAt(toks, pos).kind = "Identifier"
         THEN LET p1 == pos + 1
                  p2 == IF IsOp(TokenAt(toks, p1), <<",">>) THEN p1 + 1 ELSE p1
              IN  table_exports_loop(toks, p2,
                      Append(exports, ExportItem(TokenAt(toks, pos).text, TUnknown)))
         ELSE table_exports_loop(toks, pos + 1, exports)
    ELSE [pos |-> pos, exports |-> exports]

\* Lines 356-386.
parse_table_exports(toks, pos) ==
    IF ~match_token_variant(toks, pos, "BraceOpen")
    THEN [pos |-> pos, exports |-> <<>>]
    ELSE table_exports_loop(toks, pos + 1, <<>>)

\* The while loop of parse_table_constructor (lines 323-352); ok is FALSE
\* when a field has no value and the function returns None.
RECURSIVE table_fields_loop(_, _, _)
table_fields_loop(toks, pos, fields) ==
    IF pos < Len(toks)
    THEN IF TokenAt(toks, pos).kind = "BraceClose"
         THEN [pos |-> pos + 1, fields |-> fields, ok |-> TRUE]
         ELSE IF TokenAt(toks, pos).kind \in {"Identifier", "StringLiteral"}
         THEN LET p1 == pos + 1
                  p2 == IF IsOp(TokenAt(toks, p1), <<"=">>) THEN p1 + 1 ELSE p1
                  v  == parse_expression(toks, p2)
                  p3 == IF IsOp(TokenAt(toks, v.pos), <<",">>) THEN v.pos + 1 ELSE v.pos
              IN  IF v.expr = <<>>
                  THEN [pos |-> p2, fields |-> fields, ok |-> FALSE]
                  ELSE table_fields_loop(toks, p3,
                           Append(fields, [key |-> TokenAt(toks, pos).text,
                                           value |-> v.expr[1]]))
         ELSE table_fields_loop(toks, pos + 1, fields)
    ELSE [pos |-> pos, fields |-> fields, ok |-> TRUE]

\* Lines 317-354.
parse_table_constructor(toks, pos) ==
    IF ~match_token_variant(toks, pos, "BraceOpen")
    THEN [pos |-> pos, node |-> <<>>]
    ELSE LET r == table_fields_loop(toks, pos + 1, <<>>)
         IN  [pos |-> r.pos,
              node |-> IF r.ok
                       THEN << CodeASTNode("TableConstructor", <<>>, <<>>, <<>>, <<>>,
                                           <<>>, <<>>, <<>>, <<>>, r.fields) >>
                       ELSE <<>>]

RECURSIVE parse_node(_, _)
RECURSIVE block_loop(_, _, _)

\* Lines 211-227.
parse_block(toks, pos) == block_loop(toks, pos, <<>>)

\* Lines 118-139.
parse_function_def(toks, pos, doc) ==
    LET n == parse_qualified_name(toks, pos + 1)
    IN  IF n.name = <<>> THEN [pos |-> n.pos, node |-> <<>>]
        ELSE IF ~match_token_variant(toks, n.pos, "ParenOpen")
        THEN [pos |-> n.pos, node |-> <<>>]
        ELSE LET ps == parse_parameters(toks, n.pos + 1, <<>>)
             IN  IF ~match_token_variant(toks, ps.pos, "ParenClose")
                 THEN [pos |-> ps.pos, node |-> <<>>]
                 ELSE LET b == parse_block(toks, ps.pos + 1)
                      IN  [pos |-> b.pos,
                           node |-> << CodeASTNode("FunctionDef", n.name[1], ps.params,
                                           <<>>, <<>>, b.nodes, <<>>, <<>>, doc, <<>>) >>]

\* Lines 229-266.
parse_variable_declaration(toks, pos, doc) ==
    LET p1 == pos + 1
    IN  IF TokenAt(toks, p1).kind # "Identifier" THEN [pos |-> p1, node |-> <<>>]
        ELSE LET name == TokenAt(toks, p1).text
                 p2 == p1 + 1
             IN  IF TokenAt(toks, p2).kind = "Assignment"
                 THEN IF TokenAt(toks, p2 + 1).kind = "BraceOpen"
                      THEN LET e == parse_table_exports(toks, p2 + 1)
                           IN  [pos |-> e.pos,
                                node |-> << CodeASTNode("ModuleDeclaration", name, <<>>,
                                                e.exports, <<>>, <<>>, <<>>, <<>>, doc, <<>>) >>]
                      ELSE LET x == parse_expression(toks, p2 + 1)
                           IN  [pos |-> x.pos,
                                node |-> << CodeASTNode("VariableDeclaration", name, <<>>,
                                                <<>>, <<>>, <<>>, <<>>,
                                                IF x.expr = <<>> THEN <<>>
                                                ELSE << CodeASTNode("ReturnStatement", <<>>,
                                                            <<>>, <<>>, x.expr, <<>>, <<>>,
                                                            <<>>, <<>>, <<>>) >>,
                                                doc, <<>>) >>]
                 ELSE [pos |-> p2,
                       node |-> << CodeASTNode("VariableDeclaration", name, <<>>, <<>>,
                                       <<>>, <<>>, <<>>, <<>>, doc, <<>>) >>]

\* Lines 268-289.
parse_assignment(toks, pos, doc) ==
    IF TokenAt(toks, pos).kind # "Identifier" THEN [pos |-> pos, node |-> <<>>]
    ELSE IF TokenAt(toks, pos + 1).kind # "Assignment" THEN [pos |-> pos + 1, node |-> <<>>]
    ELSE LET x == parse_expression(toks, pos + 2)
         IN  [pos |-> x.pos,
              node |-> IF x.expr = <<>> THEN <<>>
                       ELSE << CodeASTNode("Assignment", TokenAt(toks, pos).text, <<>>,
                                   <<>>, x.expr, <<>>, <<>>, <<>>, doc, <<>>) >>]

\* Lines 413-433.
parse_if_statement(toks, pos, doc) ==
    LET c == parse_expression(toks, pos + 1)
    IN  IF c.expr = <<>> THEN [pos |-> c.pos, node |-> <<>>]
        ELSE LET t == parse_block(toks, c.pos)
                 has_else == IsKeyword(TokenAt(toks, t.pos), KW_else)
                 e == parse_block(toks, t.pos + 1)
             IN  [pos |-> IF has_else THEN e.pos ELSE t.pos,
                  node |-> << CodeASTNode("IfStatement", <<>>, <<>>, <<>>, c.expr,
                                  t.nodes, IF has_else THEN <<e.nodes>> ELSE <<>>,
                                  <<>>, doc, <<>>) >>]

\* Lines 435-445.
parse_while_loop(toks, pos, doc) ==
    LET c == parse_expression(toks, pos + 1)
    IN  IF c.expr = <<>> THEN [pos |-> c.pos, node |-> <<>>]
        ELSE LET b == parse_block(toks, c.pos)
             IN  [pos |-> b.pos,
                  node |-> << CodeASTNode("WhileLoop", <<>>, <<>>, <<>>, c.expr,
                                  b.nodes, <<>>, <<>>, doc, <<>>) >>]

\* Lines 447-485; exprs holds start, end and the step if there is one.
parse_for_numeric(toks, pos, doc) ==
    LET p1 == pos + 1
    IN  IF TokenAt(toks, p1).kind # "Identifier" THEN [pos |-> p1, node |-> <<>>]
        ELSE IF TokenAt(toks, p1 + 1).kind # "Assignment"
        THEN [pos |-> p1 + 1, node |-> <<>>]
        ELSE LET start == parse_expression(toks, p1 + 2)
                 p3 == IF IsOp(TokenAt(toks, start.pos), <<",">>)
                       THEN start.pos + 1 ELSE start.pos
                 end == parse_expression(toks, p3)
                 comma == IsOp(TokenAt(toks, end.pos), <<",">>)
                 step == IF comma THEN parse_expression(toks, end.pos + 1)
                         ELSE [pos |-> end.pos, expr |-> <<>>]
                 b == parse_block(toks, step.pos)
             IN  IF start.expr = <<>> THEN [pos |-> start.pos, node |-> <<>>]
                 ELSE IF end.expr = <<>> THEN [pos |-> end.pos, node |-> <<>>]
                 ELSE [pos |-> b.pos,
                       node |-> << CodeASTNode("ForNumeric", TokenAt(toks, p1).text, <<>>,
                                       <<>>, start.expr \o end.expr \o step.expr,
                                       b.nodes, <<>>, <<>>, doc, <<>>) >>]

\* Lines 487-495.
parse_do_block(toks, pos, doc) ==
    LET b == parse_block(toks, pos + 1)
    IN  [pos |-> b.pos,
         node |-> << CodeASTNode("DoBlock", <<>>, <<>>, <<>>, <<>>, b.nodes, <<>>,
                                 <<>>, doc, <<>>) >>]

\* Lines 497-514.
parse_repeat_until(toks, pos, doc) ==
    LET b == parse_block(toks, pos + 1)
        p1 == IF IsKeyword(TokenAt(toks, b.pos), KW_until) THEN b.pos + 1 ELSE b.pos
        c == parse_expression(toks, p1)
    IN  [pos |-> c.pos,
         node |-> IF c.expr = <<>> THEN <<>>
                  ELSE << CodeASTNode("RepeatUntil", <<>>, <<>>, <<>>, c.expr, b.nodes,
                                      <<>>, <<>>, doc, <<>>) >>]

\* Lines 516-523.
parse_function_call_stmt(toks, pos, doc) ==
    LET c == parse_expression(toks, pos)
    IN  [pos |-> c.pos,
         node |-> IF c.expr = <<>> THEN <<>>
                  ELSE << CodeASTNode("FunctionCallStmt", <<>>, <<>>, <<>>, c.expr, <<>>,
                                      <<>>, <<>>, doc, <<>>) >>]

\* The offset parse_node dispatches on: after the annotation tokens and the
\* comment it takes first (lines 62-64).
dispatch_pos(toks, pos) == parse_doc(toks, skip_annotation_tokens(toks, pos)).pos

\* Lines 61-86.
parse_node(toks, pos) ==
    LET d == parse_doc(toks, skip_annotation_tokens(toks, pos))
        tok == TokenAt(toks, d.pos)
    IN  CASE ~(d.pos < Len(toks)) -> [pos |-> d.pos, node |-> <<>>]
          [] IsKeyword(tok, KW_function) -> parse_function_def(toks, d.pos, d.doc)
          [] IsKeyword(tok, KW_local) -> parse_variable_declaration(toks, d.pos, d.doc)
          [] IsKeyword(tok, KW_return) -> parse_return_statement(toks, d.pos, d.doc)
          [] IsKeyword(tok, KW_if) -> parse_if_statement(toks, d.pos, d.doc)
          [] IsKeyword(tok, KW_while) -> parse_while_loop(toks, d.pos, d.doc)
          [] IsKeyword(tok, KW_for) -> parse_for_numeric(toks, d.pos, d.doc)
          [] IsKeyword(tok, KW_do) -> parse_do_block(toks, d.pos, d.doc)
          [] IsKeyword(tok, KW_repeat) -> parse_repeat_until(toks, d.pos, d.doc)
          [] tok.kind = "Identifier" ->
                 IF peek_assignment(toks, d.pos) THEN parse_assignment(toks, d.pos, d.doc)
                 ELSE IF peek_function_call(toks, d.pos)
                 THEN parse_function_call_stmt(toks, d.pos, d.doc)
                 ELSE [pos |-> d.pos, node |-> <<>>]
          [] tok.kind = "BraceOpen" -> parse_table_constructor(toks, d.pos)
          [] OTHER -> [pos |-> d.pos, node |-> <<>>]

\* The while loop of parse_block (lines 213-225).
block_loop(toks, pos, acc) ==
    IF pos < Len(toks)
    THEN IF IsKeyword(TokenAt(toks, pos), KW_end)
         THEN [pos |-> pos + 1, nodes |-> acc]
         ELSE LET r == parse_node(toks, pos)
              IN  IF r.node # <<>>
                  THEN block_loop(toks, r.pos, acc \o r.node)
                  ELSE block_loop(toks, r.pos + 1, acc)
    ELSE [pos |-> pos, nodes |-> acc]

(***************************************************************************)
(* CodeParser::parse over the tokens, once the Annotation Parser has read  *)
(* them: one action for each branch of the body of its loop, and one for   *)
(* its return.                                                             *)
(***************************************************************************)
CodeParseNode ==
    /\ pc = "parsed"
    /\ cp_pos < Len(tokens)
    /\ LET r == parse_node(tokens, cp_pos)
       IN  /\ r.node # <<>>
           /\ nodes' = nodes \o r.node
           /\ cp_pos' = r.pos
    /\ UNCHANGED <<pc, tokVars, apVars, anVars, taVars>>

CodeParseAdvance ==
    /\ pc = "parsed"
    /\ cp_pos < Len(tokens)
    /\ LET r == parse_node(tokens, cp_pos)
       IN  /\ r.node = <<>>
           /\ cp_pos' = r.pos + 1
    /\ UNCHANGED <<nodes, pc, tokVars, apVars, anVars, taVars>>

CodeParseReturn ==
    /\ pc = "parsed"
    /\ ~(cp_pos < Len(tokens))
    /\ pc' = "code_parsed"
    /\ UNCHANGED <<cpVars, tokVars, apVars, anVars, taVars>>

CodeParse == CodeParseNode \/ CodeParseAdvance \/ CodeParseReturn

(***************************************************************************)
(* The front end on a source text: CodeTokenizer::tokenize, then           *)
(* AnnotationParser::parse and CodeParser::parse over its tokens.  The     *)
(* texts are concatenations of at most MaxChunks chunks of Lua.            *)
(***************************************************************************)
CODE_module == <<"l","o","c","a","l"," ","M"," ","="," ","{"," ","g","e","t","_","u","s","e","r"," ","="," ","0"," ","}","\n">>

CODE_function == <<"f","u","n","c","t","i","o","n"," ","a",".","b",".","c","(","x",","," ","y",")"," ","r","e","t","u","r","n"," ","x"," ","e","n","d","\n">>

CODE_while == <<"w","h","i","l","e"," ","x"," ","d","o"," ","r","e","t","u","r","n"," ","1"," ","e","n","d"," ">>

CODE_if_else == <<"i","f"," ","x"," ","t","h","e","n"," ","r","e","t","u","r","n"," ","1"," ","e","l","s","e"," ","r","e","t","u","r","n"," ","2"," ","e","n","d"," ">>

CODE_if == <<"i","f"," ","x"," ","t","h","e","n"," ","r","e","t","u","r","n"," ","1"," ","e","n","d"," ">>

CODE_for == <<"f","o","r"," ","i"," ","="," ","1",","," ","2"," ","d","o"," ","r","e","t","u","r","n"," ","1"," ","e","n","d"," ">>

CODE_return == <<"r","e","t","u","r","n"," ","2"," ">>

CODE_local == <<"l","o","c","a","l"," ">>

CODE_variable == <<"l","o","c","a","l"," ","x"," ","="," ","1"," ">>

CODE_call == <<"f","(","x",")"," ","x"," ","="," ","1"," ">>

CODE_do == <<"d","o"," ">>

CODE_end == <<"e","n","d"," ">>

CODE_repeat == <<"r","e","p","e","a","t"," ","r","e","t","u","r","n"," ","1"," ","u","n","t","i","l"," ","x"," ">>

CODE_string == <<"\"","s"," ">>

CODE_block_comment == <<"-","-","[","["," ","c"," ">>

CODE_comments == <<"-","-"," ","c","\n","-","-","-","@","p","a","r","a","m"," ","x","\n">>

CODE_comment == <<"-","-"," ","d","\n">>

CODE_two_comments == <<"-","-"," ","c","\n","-","-"," ","d","\n">>

CodeChunks ==
    { CODE_module,
      CODE_comment,
      CODE_two_comments,
      CODE_function,
      CODE_while,
      CODE_if_else,
      CODE_if,
      CODE_for,
      CODE_return,
      CODE_local,
      CODE_variable,
      CODE_call,
      CODE_do,
      CODE_end,
      CODE_repeat,
      CODE_string,
      CODE_block_comment,
      CODE_comments }

CodeTexts ==
    { text \in Concatenations(CodeChunks, MaxChunks) : Len(text) <= MaxTextLen }

\* One iteration of the loop of tokenize (code_tokenizer.rs lines 20-123).
tokenize_iteration(lx, toks) ==
    IF Branch(lx) = "whitespace"
    THEN [lexer |-> consume_whitespace(lx), tokens |-> toks]
    ELSE IF Branch(lx) = "comment" THEN scan_comment(lx, toks)
    ELSE IF Branch(lx) = "word" THEN scan_word(lx, toks)
    ELSE IF Branch(lx) = "number" THEN scan_number(lx, toks)
    ELSE IF Branch(lx) = "string" THEN scan_string(lx, toks)
    ELSE scan_operator(lx, toks)

FrontInit ==
    /\ lexer \in { LexerNew(input) : input \in CodeTexts }
    /\ last_call = NoCall
    /\ tokens = <<>>
    /\ pc = "tokenize"
    /\ IdleParser
    /\ IdleAnnotator
    /\ IdleCodeParser
    /\ IdleAnalyzer

FrontNext == Tokenize \/ AnnotationParse \/ CodeParse

FrontSpec == FrontInit /\ [][FrontNext]_vars

(***************************************************************************)
(* A Lexer driven by its caller: every public operation of lexer.rs, in    *)
(* any order, on the texts of at most MaxChars characters over a letter, a *)
(* blank, a line break and a bracket.                                      *)
(***************************************************************************)
LexerChars == {"a", " ", "\n", "]"}

LexerTexts == Concatenations({ <<ch>> : ch \in LexerChars }, MaxChars)

\* The predicates handed to collect_while and the delimiters handed to
\* collect_until and collect_until_str.
Predicates == { Letters, {" ", "\n"}, LexerChars }

Delimiters == { <<"]","]">>, <<"\n">>, <<"a"," ">> }

Option(ch) == IF ch = None THEN <<>> ELSE <<ch>>

Call(op, value) == [op |-> op, value |-> value]

LexerIdle == UNCHANGED <<tokens, pc, apVars, anVars, cpVars, taVars>>

LexPeek ==
    /\ pc = "lexer"
    /\ last_call' = Call("peek", Option(peek(lexer)))
    /\ lexer' = lexer
    /\ LexerIdle

LexPeekN ==
    /\ pc = "lexer"
    /\ \E n \in 0..MaxChars :
           last_call' = Call("peek_n", Option(peek_n(lexer, n)))
    /\ lexer' = lexer
    /\ LexerIdle

LexAdvance ==
    /\ pc = "lexer"
    /\ last_call' = Call("advance", Option(current_char_opt(lexer)))
    /\ lexer' = advance(lexer)
    /\ LexerIdle

LexAdvanceBy ==
    /\ pc = "lexer"
    /\ \E n \in 0..(MaxChars + 1) : lexer' = advance_by(lexer, n)
    /\ last_call' = Call("advance_by", <<>>)
    /\ LexerIdle

LexConsumeWhitespace ==
    /\ pc = "lexer"
    /\ lexer' = consume_whitespace(lexer)
    /\ last_call' = Call("consume_whitespace", <<>>)
    /\ LexerIdle

LexCollectWhile ==
    /\ pc = "lexer"
    /\ \E accepted \in Predicates :
           LET r == collect_while(lexer, accepted)
           IN  lexer' = r.lexer /\ last_call' = Call("collect_while", r.result)
    /\ LexerIdle

LexCollectUntil ==
    /\ pc = "lexer"
    /\ \E delimiter \in LexerChars :
           LET r == collect_until(lexer, delimiter)
           IN  lexer' = r.lexer /\ last_call' = Call("collect_until", r.result)
    /\ LexerIdle

LexCollectUntilStr ==
    /\ pc = "lexer"
    /\ \E delimiter \in Delimiters :
           LET r == collect_until_str(lexer, delimiter)
           IN  lexer' = r.lexer /\ last_call' = Call("collect_until_str", r.result)
    /\ LexerIdle

LexerInit ==
    /\ lexer \in { LexerNew(input) : input \in LexerTexts }
    /\ last_call = NoCall
    /\ tokens = <<>>
    /\ pc = "lexer"
    /\ IdleParser
    /\ IdleAnnotator
    /\ IdleCodeParser
    /\ IdleAnalyzer

LexerNext ==
    \/ LexPeek
    \/ LexPeekN
    \/ LexAdvance
    \/ LexAdvanceBy
    \/ LexConsumeWhitespace
    \/ LexCollectWhile
    \/ LexCollectUntil
    \/ LexCollectUntilStr

LexerSpec == LexerInit /\ [][LexerNext]_vars

(***************************************************************************)
(* Type Analyzer (src/type_inference.rs).                                  *)
(* A ScopeContext is [variables, parent, function_returns]: variables is   *)
(* the set of [name, type_info] entries of the HashMap, one per name, and  *)
(* parent is << >> or <<scope>>.  Each running call of analyze is a frame  *)
(* [nodes, idx, previous_scope]: the slice it iterates, the number of      *)
(* nodes it has taken, and the local previous_scope of the                 *)
(* analyze_function that made the call (<< >> for the outermost call).     *)
(***************************************************************************)
\* HashMap::insert on ScopeContext.variables.
insert(variables, name, type_info) ==
    { v \in variables : v.name # name } \cup { [name |-> name, type_info |-> type_info] }

\* The for loop of analyze_function (lines 80-82).
RECURSIVE insert_params(_, _)
insert_params(variables, params) ==
    IF params = <<>> THEN variables
    ELSE insert_params(insert(variables, Head(params).name, Head(params).type_info),
                       Tail(params))

function_scope_detached(scope, params) ==
    [variables |-> insert_params(ScopeContextNew.variables, params),
     parent |-> <<>>,
     function_returns |-> ScopeContextNew.function_returns]

\* fn_scope of analyze_function (lines 78-82).
function_scope(scope, params) ==
    [variables |-> insert_params(ScopeContextNew.variables, params),
     parent |-> <<scope>>,
     function_returns |-> ScopeContextNew.function_returns]

add_export_replacing(mods, module_name, export) ==
    { e \in mods : e.module # module_name }
        \cup { [module |-> module_name, export |-> export] }

\* ProjectContext::add_export (project_context.rs lines 1366-1378).
add_export(mods, module_name, export) ==
    { e \in mods : ~(e.module = module_name /\ e.export.name = export.name) }
        \cup { [module |-> module_name, export |-> export] }

\* analyze_module (lines 88-92).
RECURSIVE analyze_module(_, _, _)
analyze_module(mods, module_name, exports) ==
    IF exports = <<>> THEN mods
    ELSE analyze_module(add_export(mods, module_name, Head(exports)),
                        module_name, Tail(exports))

TFunction == TypeInfo("Function", <<>>, <<>>, <<>>)

TTable == TypeInfo("Table", <<>>, <<>>, <<>>)

\* ScopeContext::lookup (lines 35-40): << >> or <<type>>.
RECURSIVE lookup(_, _)
lookup(scope, name) ==
    LET found == { v \in scope.variables : v.name = name }
    IN  IF found # {} THEN << (CHOOSE v \in found : TRUE).type_info >>
        ELSE IF scope.parent = <<>> THEN <<>>
        ELSE lookup(scope.parent[1], name)

\* infer_expression_type (lines 128-146).
infer_expression_type(scope, expr) ==
    CASE expr.kind = "Identifier" ->
             LET t == lookup(scope, expr.text) IN IF t = <<>> THEN TUnknown ELSE t[1]
      [] expr.kind = "Literal" -> TString
      [] expr.kind = "FunctionCall" -> TFunction

\* format!("{:?}", t) of the derived Debug of a TypeInfo without fields.
debug(type_info) ==
    CASE type_info.tag = "Unknown" -> <<"U","n","k","n","o","w","n">>
      [] type_info.tag = "String" -> <<"S","t","r","i","n","g">>
      [] type_info.tag = "Number" -> <<"N","u","m","b","e","r">>
      [] type_info.tag = "Boolean" -> <<"B","o","o","l","e","a","n">>
      [] type_info.tag = "Table" -> <<"T","a","b","l","e">>
      [] type_info.tag = "Function" -> <<"F","u","n","c","t","i","o","n">>

\* The code point of a letter of these names.
code_point(ch) ==
    CASE ch = "B" -> 66 [] ch = "F" -> 70 [] ch = "N" -> 78 [] ch = "S" -> 83
      [] ch = "T" -> 84 [] ch = "U" -> 85 [] ch = "a" -> 97 [] ch = "b" -> 98
      [] ch = "c" -> 99 [] ch = "e" -> 101 [] ch = "g" -> 103 [] ch = "i" -> 105
      [] ch = "k" -> 107 [] ch = "l" -> 108 [] ch = "m" -> 109 [] ch = "n" -> 110
      [] ch = "o" -> 111 [] ch = "r" -> 114 [] ch = "t" -> 116 [] ch = "u" -> 117
      [] ch = "w" -> 119

\* String::cmp is Less: the order of the bytes, a proper prefix first.
RECURSIVE str_less(_, _)
str_less(a, b) ==
    IF b = <<>> THEN FALSE
    ELSE IF a = <<>> THEN TRUE
    ELSE IF Head(a) # Head(b) THEN code_point(Head(a)) < code_point(Head(b))
    ELSE str_less(Tail(a), Tail(b))

\* The comparison handed to sort_by (line 123) is Less.
debug_less(a, b) == str_less(debug(a), debug(b))

\* One element put into a sorted Vec behind the elements not greater than
\* it: sort_by is stable.
RECURSIVE sorted_insert(_, _)
sorted_insert(sorted, t) ==
    IF sorted = <<>> THEN <<t>>
    ELSE IF debug_less(t, Head(sorted)) THEN <<t>> \o sorted
    ELSE <<Head(sorted)>> \o sorted_insert(Tail(sorted), t)

\* Vec::sort_by (line 123).
RECURSIVE sort_by_debug(_)
sort_by_debug(types) ==
    IF types = <<>> THEN <<>>
    ELSE sorted_insert(sort_by_debug(SubSeq(types, 1, Len(types) - 1)),
                       types[Len(types)])

dedup_none(types) == types

\* Vec::dedup (line 124): of a run of equal elements the first is kept.
RECURSIVE dedup(_)
dedup(types) ==
    IF Len(types) < 2 THEN types
    ELSE IF types[1] = types[2] THEN dedup(Tail(types))
    ELSE <<types[1]>> \o dedup(Tail(types))

\* The Vec ret_types of a ReturnStatement (lines 99-103).
ret_types(scope, exprs) ==
    [i \in 1..Len(exprs) |-> infer_expression_type(scope, exprs[i])]

\* union_type (lines 104-111).
union_type(types) ==
    IF types = <<>> THEN TUnknown
    ELSE IF Len(types) = 1 THEN types[1]
    ELSE TUnknown

\* infer_return_types (lines 94-126); collect_types is its for loop.
RECURSIVE infer_return_types(_, _), collect_types(_, _)
collect_types(scope, body) ==
    IF body = <<>> THEN <<>>
    ELSE LET node == Head(body)
             here == CASE node.kind = "ReturnStatement" ->
                              << union_type(ret_types(scope, node.exprs)) >>
                       [] node.kind = "FunctionDef" ->
                              infer_return_types(scope, node.body)
                       [] OTHER -> <<>>
         IN  here \o collect_types(scope, Tail(body))

infer_return_types(scope, body) == dedup(sort_by_debug(collect_types(scope, body)))

Frame(slice, idx, previous_scope) ==
    [nodes |-> slice, idx |-> idx, previous_scope |-> previous_scope]

TopFrame == frames[Len(frames)]

\* The node the for loop of the innermost analyze takes next.
NextNode == TopFrame.nodes[TopFrame.idx + 1]

Taken == [frames EXCEPT ![Len(frames)].idx = @ + 1]

Iterating ==
    pc = "analyze" /\ frames # <<>> /\ TopFrame.idx < Len(TopFrame.nodes)

(***************************************************************************)
(* Actions of the Type Analyzer: one per arm of the match of analyze       *)
(* (lines 56-75), one for the return of analyze_function, one for the call *)
(* and one for the return of the outermost analyze.                        *)
(***************************************************************************)
\* type_analyzer.analyze(&code_ast).
AnalyzeCall ==
    /\ pc = "code_parsed"
    /\ frames' = << Frame(nodes, 0, <<>>) >>
    /\ entry_scope' = current_scope
    /\ pc' = "analyze"
    /\ UNCHANGED <<current_scope, modules, inferred_returns, tokVars, apVars, anVars,
                   cpVars>>

AnalyzeFunctionUpdating ==
    /\ Iterating
    /\ NextNode.kind = "FunctionDef"
    /\ frames' = Append(Taken, Frame(NextNode.body, 0, <<current_scope>>))
    /\ current_scope' = function_scope(current_scope, NextNode.params)
    /\ inferred_returns' = infer_return_types(current_scope, NextNode.body)
    /\ nodes' = IF Len(frames) = 1
                THEN [nodes EXCEPT ![TopFrame.idx + 1].return_types = inferred_returns']
                ELSE nodes
    /\ cp_pos' = cp_pos
    /\ UNCHANGED <<pc, entry_scope, modules, tokVars, apVars, anVars>>

\* The FunctionDef arm up to the recursive call of analyze_function
\* (lines 59-67, 77-84): line 65 infers the returns in the scope the arm was
\* entered with, before analyze_function makes the scope of the function.
AnalyzeFunction ==
    /\ Iterating
    /\ NextNode.kind = "FunctionDef"
    /\ frames' = Append(Taken, Frame(NextNode.body, 0, <<current_scope>>))
    /\ current_scope' = function_scope(current_scope, NextNode.params)
    /\ inferred_returns' = infer_return_types(current_scope, NextNode.body)
    /\ UNCHANGED <<pc, entry_scope, modules, tokVars, apVars, anVars, cpVars>>

\* The end of the loop of an inner analyze and line 85.
AnalyzeFunctionReturn ==
    /\ pc = "analyze"
    /\ Len(frames) > 1
    /\ TopFrame.idx = Len(TopFrame.nodes)
    /\ current_scope' = TopFrame.previous_scope[1]
    /\ frames' = SubSeq(frames, 1, Len(frames) - 1)
    /\ UNCHANGED <<pc, entry_scope, modules, inferred_returns, tokVars, apVars, anVars,
                   cpVars>>

\* The ModuleDeclaration arm (lines 68-70).
AnalyzeModule ==
    /\ Iterating
    /\ NextNode.kind = "ModuleDeclaration"
    /\ modules' = analyze_module(modules, NextNode.name, NextNode.exports)
    /\ frames' = Taken
    /\ UNCHANGED <<pc, current_scope, entry_scope, inferred_returns, tokVars, apVars,
                   anVars, cpVars>>

\* The arm `_ => {}` (line 71).
AnalyzeOther ==
    /\ Iterating
    /\ NextNode.kind \notin {"FunctionDef", "ModuleDeclaration"}
    /\ frames' = Taken
    /\ UNCHANGED <<pc, current_scope, entry_scope, modules, inferred_returns, tokVars,
                   apVars, anVars, cpVars>>

\* The end of the loop of the outermost analyze.
AnalyzeReturn ==
    /\ pc = "analyze"
    /\ Len(frames) = 1
    /\ TopFrame.idx = Len(TopFrame.nodes)
    /\ frames' = <<>>
    /\ pc' = "analyzed"
    /\ UNCHANGED <<current_scope, entry_scope, modules, inferred_returns, tokVars, apVars,
                   anVars, cpVars>>

Analyze ==
    \/ AnalyzeCall
    \/ AnalyzeFunction
    \/ AnalyzeFunctionReturn
    \/ AnalyzeModule
    \/ AnalyzeOther
    \/ AnalyzeReturn

(***************************************************************************)
(* Code trees handed to analyze.  Functions nest up to MaxDepth deep; the  *)
(* parameter types are the ones ast.rs declares.                           *)
(***************************************************************************)
NAME_x == <<"x">>

NAME_y == <<"y">>

NAME_M == <<"M">>

ReturnStatement(exprs) ==
    CodeASTNode("ReturnStatement", <<>>, <<>>, <<>>, exprs, <<>>, <<>>, <<>>, <<>>, <<>>)

CodeFunctionDef(name, params, body) ==
    CodeASTNode("FunctionDef", name, params, <<>>, <<>>, body, <<>>, <<>>, <<>>, <<>>)

CodeModuleDeclaration(name, exports) ==
    CodeASTNode("ModuleDeclaration", name, <<>>, exports, <<>>, <<>>, <<>>, <<>>, <<>>, <<>>)

Leaves ==
    { ReturnStatement(<< Expression("Identifier", NAME_x) >>),
      CodeModuleDeclaration(NAME_M, << ExportItem(NAME_get_user, TUnknown),
                                       ExportItem(NAME_version, TNumber) >>) }

ParamLists ==
    { << [name |-> NAME_x, type_info |-> TNumber] >>,
      << [name |-> NAME_x, type_info |-> TString],
         [name |-> NAME_y, type_info |-> TUnknown] >> }

RECURSIVE CodeTrees(_)
CodeTrees(depth) ==
    { <<>> } \cup { <<leaf>> : leaf \in Leaves }
        \cup (IF depth = 0 THEN {}
              ELSE LET inner == { CodeFunctionDef(NAME_calculate, params, body) :
                                      params \in ParamLists, body \in CodeTrees(depth - 1) }
                   IN  { <<f>> : f \in inner }
                         \cup { <<f, leaf>> : f \in inner, leaf \in Leaves }
                         \cup { << f, CodeFunctionDef(NAME_value, <<>>, <<>>) >> : f \in inner })

EntryScopes ==
    { ScopeContextNew,
      [ScopeContextNew EXCEPT !.variables = { [name |-> NAME_x, type_info |-> TBoolean],
                                              [name |-> NAME_y, type_info |-> TTable] }] }

\* The statements of the function bodies whose returns are inferred: returns
\* of no, one and two expressions of each variant of Expression, and a
\* function with two returns of its own.
Statements ==
    { ReturnStatement(<<>>),
      ReturnStatement(<< Expression("Identifier", NAME_x) >>),
      ReturnStatement(<< Expression("Identifier", NAME_y) >>),
      ReturnStatement(<< Expression("Literal", <<"1">>) >>),
      ReturnStatement(<< Expression("Identifier", NAME_x), Expression("Literal", <<"1">>) >>),
      ReturnStatement(<< Expression("FunctionCall", NAME_get_user) >>),
      CodeFunctionDef(NAME_value, << [name |-> NAME_x, type_info |-> TString] >>,
                      << ReturnStatement(<< Expression("Identifier", NAME_x) >>),
                         ReturnStatement(<< Expression("Literal", <<"1">>) >>) >>) }

NAME_N == <<"N">>

\* The catalogs of the ProjectContext handed to TypeAnalyzer::new: an empty
\* one, and one that knows an export of M under another type and a module N.
Catalogs ==
    { {},
      { [module |-> NAME_M, export |-> ExportItem(NAME_version, TString)],
        [module |-> NAME_M, export |-> ExportItem(NAME_value, TBoolean)],
        [module |-> NAME_N, export |-> ExportItem(NAME_version, TUnknown)] } }

ReturningTrees ==
    { << CodeFunctionDef(NAME_calculate, params, body) >> :
          params \in ParamLists, body \in SeqsUpTo(Statements, MaxStatements) }

AnalyzerInit ==
    /\ pc = "code_parsed"
    /\ nodes \in CodeTrees(MaxDepth) \cup ReturningTrees
    /\ cp_pos = 0
    /\ lexer = LexerNew(<<>>)
    /\ last_call = NoCall
    /\ tokens = <<>>
    /\ IdleParser
    /\ IdleAnnotator
    /\ frames = <<>>
    /\ current_scope \in EntryScopes
    /\ entry_scope = current_scope
    /\ modules \in Catalogs
    /\ inferred_returns = <<>>

AnalyzerSpec == AnalyzerInit /\ [][Analyze]_vars

(***************************************************************************)
(* The two parsers over token streams that hold the variants the Code      *)
(* Parser tests for (Assignment, BraceOpen, BraceClose), as parse takes    *)
(* any Vec<Token>.  A stream is one `local M = { ... }` with up to         *)
(* MaxExports fields, with a token before and a token after it.            *)
(***************************************************************************)
NAME_a == <<"a">>

NAME_b == <<"b">>

NoSpan == Span(0, 0, 1, 1)

TOK_local == Token("Keyword", KW_local, <<>>, NoSpan)

TOK_assignment == Token("Assignment", <<>>, <<>>, NoSpan)

TOK_brace_open == Token("BraceOpen", <<>>, <<>>, NoSpan)

TOK_brace_close == Token("BraceClose", <<>>, <<>>, NoSpan)

TOK_comma == Token("Operator", <<",">>, <<>>, NoSpan)

TOK_plus == Token("Operator", <<"+">>, <<>>, NoSpan)

TOK_async ==
    Token("Annotation", <<>>,
          parse_annotation_subtokens(annotation_text("@", <<"a","s","y","n","c">>)),
          NoSpan)

IdentifierToken(name) == Token("Identifier", name, <<>>, NoSpan)

\* The values of the fields: a number, a string and the identifier b.
FieldValues ==
    { Token("NumberLiteral", <<"0">>, <<>>, NoSpan),
      Token("StringLiteral", <<"s">>, <<>>, NoSpan),
      IdentifierToken(NAME_b) }

FieldKeys == { NAME_a, NAME_get_user }

Fields == { [key |-> key, value |-> value] : key \in FieldKeys, value \in FieldValues }

\* The tokens of `key = value, key = value`.
RECURSIVE FieldTokens(_)
FieldTokens(fields) ==
    IF fields = <<>> THEN <<>>
    ELSE << IdentifierToken(Head(fields).key), TOK_assignment, Head(fields).value >>
         \o (IF Tail(fields) = <<>> THEN <<>> ELSE <<TOK_comma>>)
         \o FieldTokens(Tail(fields))

\* The tokens of `local M = { fields }`.
ModuleTokens(fields) ==
    << TOK_local, IdentifierToken(NAME_M), TOK_assignment, TOK_brace_open >>
        \o FieldTokens(fields) \o << TOK_brace_close >>

Around == { <<>>, <<TOK_async>>, <<TOK_plus>> }

TokenStreams ==
    { before \o ModuleTokens(fields) \o after :
          before \in Around, fields \in SeqsUpTo(Fields, MaxExports), after \in Around }

ParserInit ==
    /\ pc = "tokenized"
    /\ tokens \in TokenStreams
    /\ lexer = LexerNew(<<>>)
    /\ last_call = NoCall
    /\ IdleParser
    /\ IdleAnnotator
    /\ IdleCodeParser
    /\ IdleAnalyzer

ParserNext == AnnotationParse \/ CodeParse

ParserSpec == ParserInit /\ [][ParserNext]_vars

(***************************************************************************)
(* Properties of the Code Tokenizer, checked under TokSpec.                *)
(***************************************************************************)
\* The character at a 0-based offset of a text, None past its end.
CharAt(text, offset) == IF offset < Len(text) THEN text[offset + 1] ELSE None

\* The text from offset `from` (inclusive) to offset `to` (exclusive).
Slice(text, from, to) == SubSeq(text, from + 1, to)

\* The least offset at or after `from` that holds a line feed, or the length.
EndOfLine(text, from) ==
    CHOOSE i \in from..Len(text) :
        /\ i = Len(text) \/ text[i + 1] = "\n"
        /\ \A j \in from..(i - 1) : text[j + 1] # "\n"

CloseMarkerAt(text, i) ==
    i + 4 <= Len(text) /\ Slice(text, i, i + 4) = <<"-","-","]","]">>

\* The least offset at or after `from` where `--]]` starts, or the length.
FirstClose(text, from) ==
    CHOOSE i \in from..Len(text) :
        /\ i = Len(text) \/ CloseMarkerAt(text, i)
        /\ \A j \in from..(i - 1) : ~CloseMarkerAt(text, j)

Min(a, b) == IF a <= b THEN a ELSE b

\* The tokenizer is about to dispatch on a character that is not whitespace.
AtDispatch ==
    /\ pc = "tokenize"
    /\ lexer.pos < Len(lexer.input)
    /\ ~is_whitespace(lexer.input[lexer.pos + 1])

\* The step appended exactly one token.
AppendedOne == Len(tokens') = Len(tokens) + 1 /\ SubSeq(tokens', 1, Len(tokens)) = tokens

Appended == tokens'[Len(tokens')]

\* C1: span monotonicity.  In the token sequence, span.start never
\* decreases from a token to the next, and every span.end is >= its
\* span.start, whatever the kinds of the tokens.
C1_SpanMonotonicity ==
    \A i \in 1..Len(tokens) :
        /\ tokens[i].span.end >= tokens[i].span.start
        /\ i < Len(tokens) => tokens[i].span.start <= tokens[i + 1].span.start

\* A finished tokenization with a closed BlockComment, whose span starts at
\* its closing marker, followed by a token of another kind.
C1_Witness ==
    /\ pc = "tokenized"
    /\ Len(tokens) >= 2
    /\ tokens[1].kind = "BlockComment"
    /\ tokens[1].span.start > 0
    /\ tokens[2].kind # "BlockComment"

\* C2: unterminated block comment.  When the tokenizer meets `--[[` and no
\* `--]]` follows, the step raises nothing and appends exactly one
\* BlockComment whose body is all the input after `--[[`, and it leaves the
\* cursor at the end of the input, so that no token can follow; and the
\* input `--[[ foo` tokenizes to exactly [BlockComment(" foo")].
UnterminatedBlockOpen ==
    /\ AtDispatch
    /\ Slice(lexer.input, lexer.pos, Min(lexer.pos + 4, Len(lexer.input)))
           = <<"-","-","[","[">>
    /\ FirstClose(lexer.input, lexer.pos + 4) = Len(lexer.input)

C2_Example == <<"-","-","[","["," ","f","o","o">>

C2_UnterminatedBlockComment ==
    /\ [][UnterminatedBlockOpen =>
            /\ AppendedOne
            /\ Appended.kind = "BlockComment"
            /\ Appended.text = Slice(lexer.input, lexer.pos + 4, Len(lexer.input))
            /\ lexer'.pos = Len(lexer.input)
            /\ pc' = "tokenize"]_vars
    /\ [][(pc = "tokenize" /\ lexer.pos = Len(lexer.input)) =>
            (tokens' = tokens /\ pc' = "tokenized")]_vars
    /\ []((pc = "tokenized" /\ lexer.input = C2_Example) =>
            (/\ Len(tokens) = 1
             /\ tokens[1].kind = "BlockComment"
             /\ tokens[1].text = <<" ","f","o","o">>))

\* `--[[ foo` has been tokenized.
C2_Witness ==
    /\ pc = "tokenized"
    /\ lexer.input = C2_Example
    /\ Len(tokens) = 1
    /\ tokens[1].kind = "BlockComment"

\* C3: the comment branch is entered only on `-` followed by `-`.  A step
\* appends a Comment, BlockComment or Annotation token only when the
\* current character and the one after it are both `-`; on a `-` that no
\* second `-` follows, the step appends Operator("-") and consumes one
\* character.
C3_DashDispatch ==
    [][AtDispatch =>
        LET two_dashes == /\ CharAt(lexer.input, lexer.pos) = "-"
                          /\ CharAt(lexer.input, lexer.pos + 1) = "-"
        IN  /\ (AppendedOne /\ Appended.kind \in {"Comment", "BlockComment", "Annotation"})
                   => two_dashes
            /\ (CharAt(lexer.input, lexer.pos) = "-" /\ ~two_dashes) =>
                   /\ AppendedOne
                   /\ Appended.kind = "Operator"
                   /\ Appended.text = <<"-">>
                   /\ lexer'.pos = lexer.pos + 1]_vars

\* C4: classification after two leading dashes.  `[[` next makes one
\* BlockComment and the scan resumes after the closing `--]]`; else a third
\* dash immediately followed by `@` or `|` makes one Annotation covering
\* the rest of the line; otherwise one Comment holds the rest of the line.
TwoDashes ==
    /\ AtDispatch
    /\ CharAt(lexer.input, lexer.pos) = "-"
    /\ CharAt(lexer.input, lexer.pos + 1) = "-"

C4_DashClassification ==
    [][TwoDashes =>
        LET text == lexer.input
            p == lexer.pos
        IN  /\ AppendedOne
            /\ IF CharAt(text, p + 2) = "[" /\ CharAt(text, p + 3) = "["
               THEN /\ Appended.kind = "BlockComment"
                    /\ Appended.text = Slice(text, p + 4, FirstClose(text, p + 4))
                    /\ lexer'.pos = Min(FirstClose(text, p + 4) + 4, Len(text))
               ELSE IF CharAt(text, p + 2) = "-" /\ CharAt(text, p + 3) \in {"@", "|"}
               THEN /\ Appended.kind = "Annotation"
                    /\ Appended.span.start = p
                    /\ Appended.span.end = EndOfLine(text, p + 4)
                    /\ lexer'.pos = EndOfLine(text, p + 4)
               ELSE /\ Appended.kind = "Comment"
                    /\ Appended.text = Slice(text, p + 2, EndOfLine(text, p + 2))
                    /\ lexer'.pos = EndOfLine(text, p + 2)]_vars

\* A finished tokenization of an annotation line followed by a comment line.
C4_Witness ==
    /\ pc = "tokenized"
    /\ Len(tokens) = 2
    /\ tokens[1].kind = "Annotation"
    /\ tokens[2].kind = "Comment"
    /\ CharAt(lexer.input, tokens[2].span.start + 1) = "-"

\* C5: every Annotation token carries a non-empty sub-token sequence whose
\* first element is a Prefix (`---@` or `---|`) or the keyword Identifier.
C5_AnnotationStartsWithPrefix ==
    \A i \in 1..Len(tokens) :
        tokens[i].kind = "Annotation" =>
            /\ tokens[i].subtokens # <<>>
            /\ \/ /\ tokens[i].subtokens[1].kind = "Prefix"
                  /\ tokens[i].subtokens[1].parts \in { <<PrefixAt>>, <<PrefixBar>> }
               \/ tokens[i].subtokens[1].kind = "Identifier"

\* An annotation marker followed by nothing has been tokenized.
C5_Witness ==
    /\ pc = "tokenized"
    /\ lexer.input \in { PrefixAt, PrefixBar \o <<"\n">> }
    /\ Len(tokens) = 1
    /\ tokens[1].kind = "Annotation"
    /\ Len(tokens[1].subtokens) = 1

(***************************************************************************)
(* Properties of the Annotator, checked under AnnotatorSpec.               *)
(***************************************************************************)
MARK_function == <<"-","-","-","@","f","u","n","c","t","i","o","n">>

MARK_param == <<"-","-","-","@","p","a","r","a","m">>

MARK_return == <<"-","-","-","@","r","e","t","u","r","n">>

MARK_field == <<"-","-","-","@","f","i","e","l","d">>

MARK_module == <<"-","-","-","@","m","o","d","u","l","e">>

MARK_exports == <<"-","-","-","E","x","p","o","r","t","s",":">>

\* The node process_node rendered last, and the lines it returned.
RenderedNode == ast[node_idx]

Rendered(kind) == node_idx >= 1 /\ RenderedNode.kind = kind

RenderedLines == lines(rendered)

\* The indices of the rendered lines that start with a marker.
Matching(marker) ==
    { i \in 1..Len(RenderedLines) : starts_with(RenderedLines[i], marker) }

\* The k-th index, in increasing order, of a set of indices.
Kth(indices, k) == CHOOSE i \in indices : Cardinality({ j \in indices : j < i }) = k - 1

\* The text the spec gives for a type.
RECURSIVE ExpectedText(_)
ExpectedText(t) ==
    CASE t.tag = "String"   -> <<"s","t","r","i","n","g">>
      [] t.tag = "Number"   -> <<"n","u","m","b","e","r">>
      [] t.tag = "Boolean"  -> <<"b","o","o","l","e","a","n">>
      [] t.tag = "Unknown"  -> <<"a","n","y">>
      [] t.tag = "Optional" -> ExpectedText(t.args[1]) \o <<"?">>
      [] t.tag = "Union"    ->
            IF Len(t.args) = 0 THEN <<>>
            ELSE ExpectedText(t.args[1])
                 \o concat([i \in 1..(Len(t.args) - 1) |->
                               <<"|">> \o ExpectedText(t.args[i + 1])])

\* The last dot-separated segment of a name.
LastDotSegment(name) ==
    CHOOSE seg \in { SubSeq(name, i, Len(name)) : i \in 1..(Len(name) + 1) } :
        /\ \A j \in 1..Len(seg) : seg[j] # "."
        /\ Len(seg) = Len(name) \/ name[Len(name) - Len(seg)] = "."

\* C6: within-render idempotence.  One render of a FunctionDef never holds
\* two lines matching `---@function`, nor two `---@return` lines, whatever
\* the name, parameters, return types and docs, preserve_existing included.
C6_NoDuplicateMarkers ==
    Rendered("FunctionDef") =>
        /\ Cardinality(Matching(MARK_function)) <= 1
        /\ Cardinality(Matching(MARK_return)) <= 1

\* C7: parameter count.  The render of a FunctionDef with N parameters holds
\* exactly N `---@param` lines, the i-th naming the i-th parameter, each
\* after the `---@function` line and before any `---@return` line.
C7_ParamLines ==
    Rendered("FunctionDef") =>
        LET params == RenderedNode.params
            found == Matching(MARK_param)
        IN  /\ Cardinality(found) = Len(params)
            /\ \A k \in 1..Len(params) :
                   starts_with(RenderedLines[Kth(found, k)],
                               MARK_param \o <<" ">> \o params[k].name \o <<" ">>)
            /\ \A i \in found :
                   /\ \E f \in Matching(MARK_function) : f < i
                   /\ \A r \in Matching(MARK_return) : i < r

\* C8: export count.  The render of a ModuleDeclaration with N exports is
\* one `---@module <name>` line followed by exactly N `---@field <name>
\* <type>` lines in declaration order, with the `---Exports:` marker line
\* if and only if N > 0.
C8_ModuleHeader ==
    Rendered("ModuleDeclaration") =>
        LET exports == RenderedNode.exports
            fields == Matching(MARK_field)
        IN  /\ Matching(MARK_module) = {1}
            /\ RenderedLines[1] = MARK_module \o <<" ">> \o RenderedNode.name
            /\ Cardinality(fields) = Len(exports)
            /\ \A k \in 1..Len(exports) :
                   /\ Kth(fields, k) > 1
                   /\ RenderedLines[Kth(fields, k)] =
                          MARK_field \o <<" ">> \o exports[k].name \o <<" ">>
                          \o ExpectedText(exports[k].type_info)
            /\ (\E i \in 1..Len(RenderedLines) : RenderedLines[i] = MARK_exports)
                   <=> Len(exports) > 0
            /\ Len(exports) > 0 => RenderedLines[2] = MARK_exports
            /\ Len(RenderedLines) = 1 + Len(exports) + (IF Len(exports) > 0 THEN 1 ELSE 0)

\* A module with two exports has been rendered.
C8_Witness ==
    /\ pc = "annotated"
    /\ Rendered("ModuleDeclaration")
    /\ Len(RenderedNode.exports) = 2
    /\ Len(RenderedLines) = 4

\* C9: rendering of types, name and returns.  Types render as String ->
\* "string", Number -> "number", Boolean -> "boolean", Unknown -> "any",
\* Optional(T) -> text(T)?, Union -> members joined with `|`; the
\* `---@function` line carries the last dot-separated segment of the name;
\* the render ends with a `---@return` line, joining the return-type texts
\* with `, `, if and only if the list of return types is not empty; and
\* calculate(value: Number, options: Unknown) returning [Number,
\* Optional(String)] renders the four lines of the scenario.
C9_Scenario ==
    FunctionDef(<<"c","a","l","c","u","l","a","t","e">>,
                << [name |-> <<"v","a","l","u","e">>, type_info |-> TNumber],
                   [name |-> <<"o","p","t","i","o","n","s">>, type_info |-> TUnknown] >>,
                << TNumber, TOptional(TString) >>, <<>>)

HasLine(line) == \E i \in 1..Len(RenderedLines) : RenderedLines[i] = line

VARIANT_left ==
    [value |-> <<"'","\"","l","e","f","t","\"","'">>,
     description |-> << <<"T","h","e"," ","l","e","f","t"," ","s","i","d","e"," ","o","f"," ","t","h","e"," ","d","e","v","i","c","e">> >>]

VARIANT_right ==
    [value |-> <<"'","\"","r","i","g","h","t","\"","'">>,
     description |-> << <<"T","h","e"," ","r","i","g","h","t"," ","s","i","d","e"," ","o","f"," ","t","h","e"," ","d","e","v","i","c","e">> >>]

\* The variant a continuation line stands for.
VariantOf(line) == IF line = LINE_left THEN VARIANT_left ELSE VARIANT_right

\* The texts made of the `---@alias DeviceSide` line and continuation lines.
AliasBlocks ==
    { LINE_alias \o concat(ls) : ls \in SeqsUpTo({LINE_left, LINE_right}, MaxLines - 1) }

ContinuationsOf(text) ==
    CHOOSE ls \in SeqsUpTo({LINE_left, LINE_right}, MaxLines - 1) :
        text = LINE_alias \o concat(ls)

\* C10: alias scenario.  The three lines `---@alias DeviceSide`, `---|
\* '"left"' # The left side of the device`, `---| '"right"' # The right
\* side of the device` parse to one Alias named DeviceSide with the two
\* variants in order; in general every `---|` line that follows the
\* `---@alias` line contributes one (value, description) variant.
C10_AliasBlock ==
    (pc = "parsed" /\ lexer.input \in AliasBlocks) =>
        LET ls == ContinuationsOf(lexer.input)
        IN  annotations =
                << AnnotationNode("Alias", <<"D","e","v","i","c","e","S","i","d","e">>, <<>>, <<>>,
                                  [i \in 1..Len(ls) |-> VariantOf(ls[i])], <<>>, <<>>) >>

(***************************************************************************)
(* Properties of the Code Parser over the tokens of the Code Tokenizer,    *)
(* checked under FrontSpec.                                                *)
(***************************************************************************)
Ident(name) == Expression("Identifier", name)

Literal(text) == Expression("Literal", text)

ReturnOf(exprs) ==
    CodeASTNode("ReturnStatement", <<>>, <<>>, <<>>, exprs, <<>>, <<>>, <<>>, <<>>, <<>>)

Parsed(text) == pc = "code_parsed" /\ lexer.input = text

\* C11: module declaration.  `local M = { get_user = 0 }`, tokenized and
\* parsed, is exactly one ModuleDeclaration named M whose exports are
\* [get_user: Unknown]; and `local x = 1`, whose initializer is another
\* expression, is one VariableDeclaration named x that has a value.
C11_ModuleDeclaration ==
    /\ Parsed(CODE_module) =>
           nodes = << CodeASTNode("ModuleDeclaration", <<"M">>, <<>>,
                          << ExportItem(<<"g","e","t","_","u","s","e","r">>, TUnknown) >>,
                          <<>>, <<>>, <<>>, <<>>, <<>>, <<>>) >>
    /\ Parsed(CODE_variable) =>
           /\ Len(nodes) = 1
           /\ nodes[1].kind = "VariableDeclaration"
           /\ nodes[1].name = <<"x">>
           /\ nodes[1].value = << ReturnOf(<<Literal(<<"1">>)>>) >>

\* C14: function definition.  `function a.b.c(x, y) return x end`, tokenized
\* and parsed, is one FunctionDef named a.b.c with params [(x, Unknown),
\* (y, Unknown)], no return types and the body [return x]; and `f(x) x = 1`
\* is a FunctionCallStmt followed by an Assignment.
C14_FunctionDef ==
    /\ Parsed(CODE_function) =>
           nodes = << CodeASTNode("FunctionDef", <<"a",".","b",".","c">>,
                          << [name |-> <<"x">>, type_info |-> TUnknown],
                             [name |-> <<"y">>, type_info |-> TUnknown] >>,
                          <<>>, <<>>, << ReturnOf(<<Ident(<<"x">>)>>) >>,
                          <<>>, <<>>, <<>>, <<>>) >>
    /\ Parsed(CODE_call) =>
           /\ Len(nodes) = 2
           /\ nodes[1].kind = "FunctionCallStmt"
           /\ nodes[2].kind = "Assignment"

\* C15: loops are balanced.  In `while x do return 1 end return 2` and in
\* `for i = 1, 2 do return 1 end return 2` the loop node has the body
\* [return 1] and `return 2` is the node after the loop at the same level.
C15_LoopBalanced ==
    \A loop \in {CODE_while, CODE_for} :
        Parsed(loop \o CODE_return) =>
            /\ Len(nodes) = 2
            /\ nodes[1].kind = (IF loop = CODE_while THEN "WhileLoop" ELSE "ForNumeric")
            /\ nodes[1].body = << ReturnOf(<<Literal(<<"1">>)>>) >>
            /\ nodes[2] = ReturnOf(<<Literal(<<"2">>)>>)

\* C16: the two blocks of an if.  `if x then return 1 else return 2 end` is
\* an IfStatement whose then_block is [return 1] and whose else_block is
\* [return 2]; `if x then return 1 end` has the then_block [return 1] and no
\* else_block.
C16_IfElseBlocks ==
    /\ Parsed(CODE_if_else) =>
           /\ Len(nodes) = 1
           /\ nodes[1].kind = "IfStatement"
           /\ nodes[1].body = << ReturnOf(<<Literal(<<"1">>)>>) >>
           /\ nodes[1].else_block = << << ReturnOf(<<Literal(<<"2">>)>>) >> >>
    /\ Parsed(CODE_if) =>
           /\ Len(nodes) = 1
           /\ nodes[1].kind = "IfStatement"
           /\ nodes[1].body = << ReturnOf(<<Literal(<<"1">>)>>) >>
           /\ nodes[1].else_block = <<>>

\* C17: resuming after an abandoned construct.  When parse_node returns
\* nothing after its sub-parser consumed tokens, and a token is left, the
\* next dispatch is at the first token the attempt did not consume.
C17_ResumeAfterAbandon ==
    [][(/\ pc = "parsed"
        /\ cp_pos < Len(tokens)
        /\ parse_node(tokens, cp_pos).node = <<>>
        /\ parse_node(tokens, cp_pos).pos > dispatch_pos(tokens, cp_pos)
        /\ parse_node(tokens, cp_pos).pos < Len(tokens))
       => cp_pos' = parse_node(tokens, cp_pos).pos]_vars

(***************************************************************************)
(* Properties of the Type Analyzer, checked under AnalyzerSpec.            *)
(***************************************************************************)
\* The scope that is current for the k-th running call of analyze.
ScopeOfFrame(k) ==
    IF k = Len(frames) THEN current_scope ELSE frames[k + 1].previous_scope[1]

\* The FunctionDef whose body the k-th running call iterates (k > 1).
FunctionOfFrame(k) == frames[k - 1].nodes[frames[k - 1].idx]

SeededWith(variables, params) ==
    /\ \A v \in variables : \E i \in 1..Len(params) : params[i] = v
    /\ \A i \in 1..Len(params) : \E v \in variables : v.name = params[i].name
    /\ \A v, w \in variables : v.name = w.name => v = w

ScopeStack ==
    pc = "analyze" =>
        /\ ScopeOfFrame(1) = entry_scope
        /\ \A k \in 2..Len(frames) :
              /\ FunctionOfFrame(k).kind = "FunctionDef"
              /\ frames[k].nodes = FunctionOfFrame(k).body
              /\ ScopeOfFrame(k).parent = << ScopeOfFrame(k - 1) >>
              /\ SeededWith(ScopeOfFrame(k).variables, FunctionOfFrame(k).params)

\* A step changes no scope of a call that keeps running, and what becomes
\* current on leaving a function is the scope saved on entering it.
OuterScopesKept ==
    /\ pc = "analyze" /\ pc' = "analyze" =>
          \A k \in 1..Len(frames) :
              k <= Len(frames') => ScopeOfFrame(k)' = ScopeOfFrame(k)
    /\ pc' = "analyzed" => current_scope' = current_scope

\* C12: entering a FunctionDef makes current a new scope whose parent is the
\* scope that was current and whose variables are exactly the function's
\* parameters; leaving it restores that scope unchanged; no scope of an
\* enclosing call is changed by any step; and when analyze has returned,
\* current_scope is the scope that was current at the call.
C12_ScopeStackDiscipline ==
    /\ [](ScopeStack /\ (pc = "analyzed" => current_scope = entry_scope))
    /\ [][OuterScopesKept]_vars

\* analyze is two functions deep, the inner one seeded with two parameters,
\* under an entry scope that binds x.
C12_Witness ==
    /\ pc = "analyze"
    /\ Len(frames) = 3
    /\ Cardinality(current_scope.variables) = 2
    /\ entry_scope.variables # {}
    /\ current_scope.parent[1].parent = <<entry_scope>>

(***************************************************************************)
(* Termination of the front end, checked under FrontSpec.                  *)
(***************************************************************************)
\* What is left for the loop that is running.
Remaining ==
    IF pc = "tokenize" THEN Len(lexer.input) - lexer.pos
    ELSE IF pc = "tokenized" THEN Len(tokens) - ap_pos
    ELSE IF pc = "parsed" THEN Len(tokens) - cp_pos
    ELSE 0

\* The iteration that a running loop takes next leaves its cursor strictly
\* further on, and no cursor goes beyond what the code allows: the lexer
\* stays inside its input, the Annotation Parser inside the tokens, and the
\* Code Parser, whose advance adds one unguarded, may pass the end of the
\* tokens by one for every construct it has opened; there every read of a
\* token gives None and every loop ends.
LoopsAdvance ==
    /\ lexer.pos <= Len(lexer.input)
    /\ ap_pos <= Len(tokens)
    /\ cp_pos <= 2 * Len(tokens) + 1
    /\ pc = "tokenize" /\ lexer.pos < Len(lexer.input) =>
          /\ tokenize_iteration(lexer, tokens).lexer.pos > lexer.pos
          /\ tokenize_iteration(lexer, tokens).lexer.pos <= Len(lexer.input)
    /\ pc = "parsed" /\ cp_pos < Len(tokens) =>
          LET r == parse_node(tokens, cp_pos)
          IN  /\ r.pos >= cp_pos
              /\ r.pos <= 2 * Len(tokens)
              /\ r.node # <<>> => r.pos > cp_pos
    /\ pc \in {"tokenize", "tokenized", "parsed", "code_parsed"}

\* A step either ends a loop or shortens what is left for it.
CursorAdvances ==
    /\ pc' = pc => Remaining' < Remaining
    /\ pc' # pc => Remaining <= 0
    /\ lexer'.input = lexer.input

RECURSIVE KeysOf(_)
KeysOf(fields) ==
    IF fields = <<>> THEN <<>>
    ELSE << ExportItem(Head(fields).key, TUnknown) >> \o KeysOf(Tail(fields))

\* C18: the exports of a ModuleDeclaration are exactly the keys of the
\* fields of the table constructor, in order, each with type Unknown; a
\* value of a field, also when it is an identifier, is not an export.
C18_ExportsAreKeys ==
    pc = "code_parsed" =>
        \A fields \in SeqsUpTo(Fields, MaxExports) :
            tokens = ModuleTokens(fields) =>
                /\ Len(nodes) = 1
                /\ nodes[1].kind = "ModuleDeclaration"
                /\ nodes[1].name = NAME_M
                /\ nodes[1].exports = KeysOf(fields)

(***************************************************************************)
(* Properties of the Annotation Parser on single annotation lines, checked *)
(* under AnnotationSpec.                                                   *)
(***************************************************************************)
AnnotationsOf(line) == pc = "parsed" /\ lexer.input = line

ParamNode(name, type_field, description) ==
    AnnotationNode("Param", name, type_field, description, <<>>, <<>>, <<>>)

TYPE_string == <<"s","t","r","i","n","g">>

\* C19: the keyword is matched without regard to letter case: the line
\* `---@Param x string` gives the Param node that `---@param x string`
\* gives, and `---@ALIAS T` gives an Alias node named T, not a Generic node.
C19_KeywordCase ==
    /\ AnnotationsOf(LINE_param) =>
           annotations = << ParamNode(NAME_x, TYPE_string, <<>>) >>
    /\ AnnotationsOf(LINE_Param) =>
           annotations = << ParamNode(NAME_x, TYPE_string, <<>>) >>
    /\ AnnotationsOf(LINE_ALIAS) =>
           /\ Len(annotations) = 1
           /\ annotations[1].kind = "Alias"
           /\ annotations[1].name = <<"T">>

\* C20: `---@param <name> <type> <words>` gives Param{name, type,
\* Some(the words joined by single spaces)}; the description is None when
\* nothing follows the type; a line with a name and no type gives no node.
C20_ParamDescription ==
    /\ AnnotationsOf(LINE_param_words) =>
           annotations = << ParamNode(NAME_x, TYPE_string,
                                      << <<"t","h","e"," ","v","a","l","u","e">> >>) >>
    /\ AnnotationsOf(LINE_param_text) =>
           annotations = << ParamNode(NAME_x, TYPE_string,
                                      << <<"1","s","t"," ","2","n","d">> >>) >>
    /\ AnnotationsOf(LINE_param) =>
           annotations = << ParamNode(NAME_x, TYPE_string, <<>>) >>
    /\ AnnotationsOf(LINE_param_name) => annotations = <<>>

(***************************************************************************)
(* Properties of the loop of AnnotationParser::parse, checked under        *)
(* AnnotationSpec.                                                         *)
(***************************************************************************)
IsAnnotation(token) == token.kind = "Annotation"

\* The Annotation tokens among the first n tokens, in order.
AnnotationTokens(n) == SelectSeq(SubSeq(tokens, 1, n), IsAnnotation)

\* What the Annotation tokens alone determine: the nodes of their
\* sub-token vectors, in order.
RECURSIVE NodesOf(_)
NodesOf(annotation_tokens) ==
    IF annotation_tokens = <<>> THEN <<>>
    ELSE parse_annotation_token(Head(annotation_tokens).subtokens)
         \o NodesOf(Tail(annotation_tokens))

JustEntered == pc = "analyze" /\ Len(frames) > 1 /\ TopFrame.idx = 0

EnteredFunction == FunctionOfFrame(Len(frames))

ScopeAtEntry == TopFrame.previous_scope[1]

\* The reduced type of one ReturnStatement.
Reduced(scope, exprs) ==
    IF Len(exprs) = 1 THEN infer_expression_type(scope, exprs[1]) ELSE TUnknown

\* The types the returns directly in body reduce to, with those of the
\* functions directly in body.
RECURSIVE ReturnTypeSet(_, _)
ReturnTypeSet(scope, body) ==
    UNION { IF body[i].kind = "ReturnStatement" THEN { Reduced(scope, body[i].exprs) }
            ELSE IF body[i].kind = "FunctionDef" THEN ReturnTypeSet(scope, body[i].body)
            ELSE {} : i \in 1..Len(body) }

\* The place of a variant in the ordering of the result.
Rank(type_info) ==
    CASE type_info.tag = "Boolean" -> 1
      [] type_info.tag = "Function" -> 2
      [] type_info.tag = "Number" -> 3
      [] type_info.tag = "String" -> 4
      [] type_info.tag = "Table" -> 5
      [] type_info.tag = "Unknown" -> 6

Reorderings(body) ==
    { [i \in 1..Len(body) |-> body[f[i]]] :
          f \in { g \in [1..Len(body) -> 1..Len(body)] :
                      \A i, j \in 1..Len(body) : i # j => g[i] # g[j] } }

\* C22: the inferred returns of a function body are strictly ascending in a
\* fixed ordering of the variants (so free of duplicates), hold exactly the
\* reduced type of every return directly in the body and the inferred
\* returns of every function directly in it, and are the same for every
\* reordering of the statements of the body.
C22_InferredReturns ==
    JustEntered =>
        /\ \A i, j \in 1..Len(inferred_returns) :
              i < j => Rank(inferred_returns[i]) < Rank(inferred_returns[j])
        /\ { inferred_returns[i] : i \in 1..Len(inferred_returns) }
              = ReturnTypeSet(ScopeAtEntry, EnteredFunction.body)
        /\ \A body \in Reorderings(EnteredFunction.body) :
              infer_return_types(ScopeAtEntry, body) = inferred_returns

\* A body whose collected types are out of order and hold String twice.
C22_Witness ==
    /\ JustEntered
    /\ collect_types(ScopeAtEntry, EnteredFunction.body) = <<TString, TUnknown, TString>>
    /\ inferred_returns = <<TString, TUnknown>>


\* The parameters p of the function just entered that a statement
\* `return p` directly in its body names.
ReturnedParams ==
    { param \in { EnteredFunction.params[i] : i \in 1..Len(EnteredFunction.params) } :
          \E i \in 1..Len(EnteredFunction.body) :
              /\ EnteredFunction.body[i].kind = "ReturnStatement"
              /\ EnteredFunction.body[i].exprs = << Expression("Identifier", param.name) >> }

\* C23: the returns of a function are typed in the scope seeded with its
\* own parameters: `return p` with p a parameter of type T infers T, also
\* when an outer scope binds the same name.
C23_ParamsTypeReturns ==
    JustEntered =>
        \A param \in ReturnedParams :
            \E i \in 1..Len(inferred_returns) : inferred_returns[i] = param.type_info

RECURSIVE FunctionDefs(_)
FunctionDefs(tree) ==
    UNION { IF tree[i].kind = "FunctionDef"
            THEN { tree[i] } \cup FunctionDefs(tree[i].body)
            ELSE {} : i \in 1..Len(tree) }

TreeKept == pc \in {"code_parsed", "analyze"} => nodes' = nodes

\* C24: no step of analyze changes the code tree, so every FunctionDef keeps
\* its parameter types and its empty return_types; when analyze has
\* returned, the scope is the one it was called with, and the catalog is
\* all that may differ.
C24_TreeUnchanged ==
    /\ [][TreeKept]_vars
    /\ [](pc = "analyzed" =>
             /\ current_scope = entry_scope
             /\ frames = <<>>
             /\ \A f \in FunctionDefs(nodes) : f.return_types = <<>>)

\* analyze has returned from a tree with a function of typed parameters
\* whose inferred returns are not empty, and has filled the catalog.
C24_Witness ==
    /\ pc = "analyzed"
    /\ inferred_returns # <<>>
    /\ modules # {}
    /\ \E f \in FunctionDefs(nodes) : Len(f.params) = 2

(***************************************************************************)
(* The catalog of exports, checked under AnalyzerSpec.                     *)
(***************************************************************************)
\* The export the catalog holds under a module name and an export name.
ExportsAt(mods, module_name, export_name) ==
    { e.export : e \in { c \in mods : c.module = module_name
                                          /\ c.export.name = export_name } }

\* The last export of a declaration that has the given name.
LastNamed(exports, export_name) ==
    LET at == { i \in 1..Len(exports) : exports[i].name = export_name }
    IN  exports[CHOOSE i \in at : \A j \in at : j <= i]

CatalogKeys(mods) == { <<c.module, c.export.name>> : c \in mods }

\* What the step on a ModuleDeclaration does to the catalog.
ModuleStep ==
    LET decl == NextNode
        names == { decl.exports[i].name : i \in 1..Len(decl.exports) }
    IN  /\ \A name \in names :
              ExportsAt(modules', decl.name, name) = { LastNamed(decl.exports, name) }
        /\ \A key \in CatalogKeys(modules) \cup CatalogKeys(modules') :
              (key[1] # decl.name \/ key[2] \notin names)
                  => ExportsAt(modules', key[1], key[2]) = ExportsAt(modules, key[1], key[2])

CatalogStep ==
    IF Iterating /\ NextNode.kind = "ModuleDeclaration" THEN ModuleStep
    ELSE modules' = modules

\* The module declarations analyze visits: those of the tree and of the
\* bodies of its functions.
RECURSIVE ModuleDeclarations(_)
ModuleDeclarations(tree) ==
    UNION { IF tree[i].kind = "ModuleDeclaration" THEN { tree[i] }
            ELSE IF tree[i].kind = "FunctionDef" THEN ModuleDeclarations(tree[i].body)
            ELSE {} : i \in 1..Len(tree) }

\* C25: a step on a ModuleDeclaration puts each of its exports, as declared,
\* under the module name and the export name, replacing only the export
\* that was there under the same two names; every other entry of the
\* catalog, of this module or another, is kept, and no other step changes
\* the catalog.  When analyze has returned the catalog holds one export
\* under each export name of every declaration visited.
C25_Catalog ==
    /\ [][CatalogStep]_vars
    /\ [](pc = "analyzed" =>
             \A decl \in ModuleDeclarations(nodes) :
                 \A i \in 1..Len(decl.exports) :
                     Cardinality(ExportsAt(modules, decl.name, decl.exports[i].name)) = 1)

\* analyze has returned from a module declared inside a function, over a
\* catalog that knew version: String of M: the declared version: Number has
\* replaced it, get_user is new, and value of M and the module N are kept.
C25_Witness ==
    /\ pc = "analyzed"
    /\ Len(nodes) = 1
    /\ nodes[1].kind = "FunctionDef"
    /\ ModuleDeclarations(nodes[1].body) # {}
    /\ ExportsAt(modules, NAME_M, NAME_version) = { ExportItem(NAME_version, TNumber) }
    /\ ExportsAt(modules, NAME_M, NAME_get_user) = { ExportItem(NAME_get_user, TUnknown) }
    /\ ExportsAt(modules, NAME_M, NAME_value) = { ExportItem(NAME_value, TBoolean) }
    /\ ExportsAt(modules, NAME_N, NAME_version) = { ExportItem(NAME_version, TUnknown) }

(***************************************************************************)
(* Properties of the Annotator on parameter lines and comments, checked    *)
(* under AnnotatorSpec.                                                    *)
(***************************************************************************)
EndsWith(line, suffix) ==
    /\ Len(suffix) <= Len(line)
    /\ SubSeq(line, Len(line) - Len(suffix) + 1, Len(line)) = suffix

\* C26: in the render of a FunctionDef without docs, the `---@param` line of
\* a parameter ends with ` @TODO: Specify type` exactly when the type of the
\* parameter is Unknown or Optional(Unknown); Unknown under two Optionals,
\* like every other type, gets no suffix.
C26_TodoSuffix ==
    (Rendered("FunctionDef") /\ RenderedNode.docs = <<>>) =>
        \A k \in 1..Len(RenderedNode.params) :
            EndsWith(RenderedLines[Kth(Matching(MARK_param), k)], STR_todo)
                <=> RenderedNode.params[k].type_info \in { TUnknown, TOptional(TUnknown) }

\* The text the spec gives for a comment.
ExpectedComment(text) ==
    IF \E i \in 1..Len(text) : text[i] = "\n"
    THEN <<"-","-","[","[","\n">> \o text \o <<"\n","-","-","]","]">>
    ELSE <<"-","-"," ">> \o text

\* The lines of a render, whether or not it ends with a line break.
RenderOf(k) ==
    process_node(preserve_existing, IF k = 1 THEN <<>> ELSE current_module, ast[k])

\* C27: a comment is rendered as the line `-- <text>` when its text has no
\* line break and as `--[[`, the text, `--]]` otherwise; and in the output
\* for two nodes one empty line stands between the lines of the first and
\* the lines of the second.
C27_CommentRendering ==
    /\ (Rendered("CommentBlock") /\ preserve_existing) =>
           lines(rendered) = lines(ExpectedComment(RenderedNode.text))
    /\ (pc = "annotated" /\ Len(ast) = 2) =>
           \E rest \in { <<>>, << <<>> >> } :
               lines(output) = lines(RenderOf(1)) \o << <<>> >> \o lines(RenderOf(2)) \o rest

(***************************************************************************)
(* Properties of the Lexer, checked under LexerSpec.                       *)
(***************************************************************************)
\* The offsets below pos that hold a line break.
LineBreaksBefore(lx) == { i \in 1..lx.pos : lx.input[i] = "\n" }

\* The number of characters consumed after the last line break consumed.
SinceLineBreak(lx) ==
    IF LineBreaksBefore(lx) = {} THEN lx.pos
    ELSE lx.pos - (CHOOSE i \in LineBreaksBefore(lx) : \A j \in LineBreaksBefore(lx) : j <= i)

Position ==
    /\ lexer.pos \in 0..Len(lexer.input)
    /\ lexer.line = 1 + Cardinality(LineBreaksBefore(lexer))
    /\ lexer.column = 1 + SinceLineBreak(lexer)

CallsKeep ==
    /\ lexer'.input = lexer.input
    /\ (last_call'.op = "advance" /\ lexer.pos = Len(lexer.input)) =>
           lexer' = lexer /\ last_call'.value = <<>>
    /\ (last_call'.op = "advance" /\ lexer.pos < Len(lexer.input)) =>
           lexer'.pos = lexer.pos + 1 /\ last_call'.value = << lexer.input[lexer.pos + 1] >>
    /\ last_call'.op \in {"peek", "peek_n"} => lexer' = lexer

\* C28: after any sequence of calls, pos is within the input, line is one
\* more than the line breaks among the first pos characters and column one
\* more than the characters consumed since the last of them; advance at the
\* end of the input returns nothing and changes no field, and peek and
\* peek_n change no field.
C28_LexerPosition == []Position /\ [][CallsKeep]_vars

\* Two lines have been passed and the lexer stands at the end of the input
\* after an advance that returned nothing.
C28_Witness ==
    /\ pc = "lexer"
    /\ last_call = Call("advance", <<>>)
    /\ lexer.pos = Len(lexer.input)
    /\ lexer.line = 3
    /\ lexer.column = 2

(***************************************************************************)
(* Spans, checked under TokSpec.                                           *)
(***************************************************************************)
SpansInside ==
    \A i \in 1..Len(tokens) :
        /\ tokens[i].span.start <= tokens[i].span.end
        /\ tokens[i].span.end <= Len(lexer.input)

\* An iteration that makes a token is entered with the lexer on the first
\* character of the token.
SpanStartsAtToken == AppendedOne => Appended.span.start = lexer.pos

\* C29: the span of every token, a BlockComment with or without its closing
\* marker included, starts at the offset of the first character of the
\* token and satisfies start <= end <= length of the input.
C29_SpanInsideInput == []SpansInside /\ [][SpanStartsAtToken]_vars

(***************************************************************************)
(* Doc strings, checked under FrontSpec.                                   *)
(***************************************************************************)
\* The node a step of CodeParser::parse has pushed.
PushedNode == nodes'[Len(nodes')]

\* The doc string the token before offset first gives a node.
DocBefore(first) ==
    IF first > 0 /\ TokenAt(tokens, first - 1).kind = "Comment"
    THEN << TokenAt(tokens, first - 1).text >>
    ELSE <<>>

DocIsPrecedingComment ==
    (pc = "parsed" /\ Len(nodes') = Len(nodes) + 1
        /\ PushedNode.kind \notin {"ReturnStatement", "TableConstructor", "Comment"}) =>
        PushedNode.doc = DocBefore(dispatch_pos(tokens, cp_pos))

\* C30: the doc string of a node that carries one is the text of the
\* Comment token right before the first token of the node, and absent when
\* that token is not a Comment: absent in particular when an Annotation
\* token stands between a comment and the node, and never the content of an
\* Annotation token.
C30_DocString == [][DocIsPrecedingComment]_vars

====
